---------------------------- MODULE Spec2Model ----------------------------
(***************************************************************************)
(* Post-build asset processing of ViteMPA                                  *)
(* (post-build-assets-processor-plugin.ts): the Output Mapping Builder,    *)
(* the Scanner, the Missing-Asset Reconciler and the Document Rewriter,    *)
(* sequenced by closeBundle.                                               *)
(*                                                                         *)
(* Representation.  A JavaScript string is a sequence of symbols.  A       *)
(* symbol is either one delimiter character ("/", ".", "-", "?", "#",      *)
(* ",", " ") or an atom: a maximal run of other characters ("images",      *)
(* "https:", "9f3ab21c").  No atom of the model is a proper prefix or      *)
(* suffix of another, so startsWith, endsWith, slice, split and the        *)
(* anchored regular expressions of the source act on symbols exactly as    *)
(* they act on characters.  A path is such a string; a directory tree is   *)
(* a function from relative paths to file contents.                        *)
(***************************************************************************)
EXTENDS Integers, Sequences, FiniteSets, TLC

(***************************************************************************)
(* Bounds of the model.                                                    *)
(***************************************************************************)
\* elements per HTML document
MaxElems == 1
\* runs of updateHtmlFiles over one output tree
MaxRuns == 2
\* the most '/'-separated segments of a MIME type string tried
MaxSegments == 4

(***************************************************************************)
(* String primitives.                                                      *)
(***************************************************************************)
StartsWith(s, p) == Len(s) >= Len(p) /\ SubSeq(s, 1, Len(p)) = p

EndsWith(s, p) == Len(s) >= Len(p) /\ SubSeq(s, Len(s) - Len(p) + 1, Len(s)) = p

Slice(s, n) == SubSeq(s, n + 1, Len(s))

\* s.replace(/^\/+/, '')
RECURSIVE StripLeadingSlashes(_)
StripLeadingSlashes(s) ==
    IF s # <<>> /\ Head(s) = "/" THEN StripLeadingSlashes(Tail(s)) ELSE s

\* index of the first symbol of s that is in set D, or Len(s) + 1
RECURSIVE FirstIndexIn(_, _, _)
FirstIndexIn(s, D, i) ==
    IF i > Len(s) THEN i
    ELSE IF s[i] \in D THEN i ELSE FirstIndexIn(s, D, i + 1)

\* index of the last symbol of s that is in set D, or 0
RECURSIVE LastIndexIn(_, _, _)
LastIndexIn(s, D, i) ==
    IF i < 1 THEN 0
    ELSE IF s[i] \in D THEN i ELSE LastIndexIn(s, D, i - 1)

\* s.split(/[?#]/)[0]
BeforeQueryOrHash(s) == SubSeq(s, 1, FirstIndexIn(s, {"?", "#"}, 1) - 1)

\* s.split(d): the sequence of the pieces of s between occurrences of symbol d
RECURSIVE Split(_, _)
Split(s, d) ==
    LET i == FirstIndexIn(s, {d}, 1)
    IN IF i > Len(s) THEN <<s>>
       ELSE <<SubSeq(s, 1, i - 1)>> \o Split(SubSeq(s, i + 1, Len(s)), d)

\* pieces.join(d)
RECURSIVE Join(_, _)
Join(pieces, d) ==
    IF pieces = <<>> THEN <<>>
    ELSE IF Len(pieces) = 1 THEN pieces[1]
    ELSE pieces[1] \o d \o Join(Tail(pieces), d)

\* s.trim()
RECURSIVE TrimLeft(_)
TrimLeft(s) == IF s # <<>> /\ Head(s) = " " THEN TrimLeft(Tail(s)) ELSE s

RECURSIVE TrimRight(_)
TrimRight(s) ==
    IF s # <<>> /\ s[Len(s)] = " " THEN TrimRight(SubSeq(s, 1, Len(s) - 1)) ELSE s

Trim(s) == TrimRight(TrimLeft(s))

\* s.split(/\s+/): the pieces of s between runs of blanks
RECURSIVE SplitBlanks(_)
SplitBlanks(s) ==
    LET i == FirstIndexIn(s, {" "}, 1)
    IN IF i > Len(s) THEN <<s>>
       ELSE <<SubSeq(s, 1, i - 1)>> \o SplitBlanks(TrimLeft(SubSeq(s, i, Len(s))))

(***************************************************************************)
(* node:path on POSIX paths.                                               *)
(***************************************************************************)
\* path.parse(p): dir, base, name, ext
PathParse(p) ==
    LET slash == LastIndexIn(p, {"/"}, Len(p))
        base  == SubSeq(p, slash + 1, Len(p))
        dot   == LastIndexIn(base, {"."}, Len(base))
        hasExt == dot > 1
    IN [dir  |-> SubSeq(p, 1, slash - 1),
        base |-> base,
        name |-> IF hasExt THEN SubSeq(base, 1, dot - 1) ELSE base,
        ext  |-> IF hasExt THEN SubSeq(base, dot, Len(base)) ELSE <<>>]

\* path.basename(p)
Basename(p) == PathParse(p).base

\* whether a segment of a path is kept by path.normalize
IsKeptSegment(segment) == segment \notin {<<>>, <<".">>}

\* path.normalize(p) for a relative p without '..': empty and '.' segments
\* are dropped
Normalize(p) == Join(SelectSeq(Split(p, "/"), IsKeptSegment), <<"/">>)

\* path.join(dir, rest) for a relative rest
PathJoin(dir, rest) ==
    Normalize(IF dir = <<>> THEN rest ELSE IF rest = <<>> THEN dir ELSE dir \o <<"/">> \o rest)

(***************************************************************************)
(* AssetMappings is a plain JavaScript object: a property read falls       *)
(* through to Object.prototype when the object has no own property of      *)
(* that name.  ObjectPrototype gives, for the inherited names the model    *)
(* uses, the text the value takes inside a template literal.               *)
(***************************************************************************)
ObjectPrototype ==
    (<<"constructor">> :> <<"function Object() { [native code] }">>) @@
    (<<"toString">>    :> <<"function toString() { [native code] }">>)

\* whether assetMappings[key] is truthy
Mapped(assetMappings, key) ==
    IF key \in DOMAIN assetMappings THEN assetMappings[key] # <<>>
    ELSE key \in DOMAIN ObjectPrototype

\* `${assetMappings[key]}` for a truthy assetMappings[key]
MappedPath(assetMappings, key) ==
    IF key \in DOMAIN assetMappings THEN assetMappings[key]
    ELSE ObjectPrototype[key]

(***************************************************************************)
(* updateUrl                                                               *)
(***************************************************************************)
\* the lookup key updateUrl derives from url
LookupKey(url, assetConfig) ==
    StripLeadingSlashes(
        IF StartsWith(url, assetConfig.siteBaseUrl)
        THEN Slice(url, Len(assetConfig.siteBaseUrl))
        ELSE url)

\* a mutant of updateUrl: the hashed URL is always rebuilt site-relative
updateUrlRelativeOnly(url, assetConfig, assetMappings) ==
    LET assetPath == LookupKey(url, assetConfig)
    IN IF Mapped(assetMappings, assetPath)
       THEN <<"/">> \o MappedPath(assetMappings, assetPath)
       ELSE url

updateUrl(url, assetConfig, assetMappings) ==
    LET isAbsolute == StartsWith(url, assetConfig.siteBaseUrl)
        assetPath  == LookupKey(url, assetConfig)
    IN IF Mapped(assetMappings, assetPath)
       THEN IF isAbsolute
            THEN assetConfig.siteBaseUrl \o <<"/">> \o MappedPath(assetMappings, assetPath)
            ELSE <<"/">> \o MappedPath(assetMappings, assetPath)
       ELSE url

(***************************************************************************)
(* fixMimeType                                                             *)
(***************************************************************************)
TopLevelTypes == {"image", "audio", "video", "application"}

fixMimeType(mimeType) ==
    IF mimeType = <<>> THEN mimeType
    ELSE IF /\ Len(mimeType) >= 4
            /\ mimeType[1] \in TopLevelTypes
            /\ mimeType[2] = "/"
            /\ mimeType[3] \in TopLevelTypes
            /\ mimeType[4] = "/"
         THEN <<mimeType[1], "/">> \o SubSeq(mimeType, 5, Len(mimeType))
         ELSE mimeType

(***************************************************************************)
(* JSON values, tagged: null | num | str | arr | obj.  An object is a      *)
(* function from keys (strings) to values.  A JSON text is a record of     *)
(* its layout and the value it parses to: JSON.stringify(v) gives the      *)
(* "compact" layout, JSON.stringify(v, null, 2) the "indent2" layout, and  *)
(* the two texts are the same text exactly when the top-level value has    *)
(* no member.  A text that JSON.parse rejects is a "raw" text.             *)
(***************************************************************************)
JNull == [t |-> "null", v |-> <<>>]
JStr(s) == [t |-> "str", v |-> s]
JArr(items) == [t |-> "arr", v |-> items]
JObj(fields) == [t |-> "obj", v |-> fields]

IsContainer(j) == j.t \in {"arr", "obj"}

HasMembers(j) == IsContainer(j) /\ DOMAIN j.v # {}

JsonText(layout, value) == [kind |-> "json", layout |-> layout, value |-> value]
RawText(text) == [kind |-> "raw", text |-> text]
NoText == RawText(<<>>)

\* JSON.stringify(value)
Stringify(value) == JsonText("compact", value)

\* JSON.stringify(value, null, JSON_INDENT_SPACES)
StringifyIndented(value) ==
    IF HasMembers(value) THEN JsonText("indent2", value) ELSE JsonText("compact", value)

\* whether JSON.parse(text) returns
Parses(text) == text.kind = "json"

\* the key under which Object.entries lists element i of an array
IndexKey(i) == <<ToString(i - 1)>>

(***************************************************************************)
(* processManifestUrls.  The source mutates the object and returns whether *)
(* it replaced a value; here the operator returns the object after the     *)
(* call, and the returned flag is "the result differs from the argument"   *)
(* (a value is assigned only when it differs).                             *)
(***************************************************************************)
RECURSIVE processManifestUrls(_, _, _)
processManifestUrls(obj, assetConfig, assetMappings) ==
    LET Item(item) ==
            IF item.t = "str"
            THEN JStr(updateUrl(item.v, assetConfig, assetMappings))
            ELSE processManifestUrls(item, assetConfig, assetMappings)
        Field(key, val) ==
            IF key # <<"icons">> /\ val.t = "str"
            THEN JStr(updateUrl(val.v, assetConfig, assetMappings))
            ELSE IF val.t = "arr"
            THEN JArr([i \in DOMAIN val.v |-> Item(val.v[i])])
            ELSE IF val.t = "obj"
            THEN processManifestUrls(val, assetConfig, assetMappings)
            ELSE val
    IN IF obj.t = "obj"
       THEN JObj([key \in DOMAIN obj.v |-> Field(key, obj.v[key])])
       ELSE IF obj.t = "arr"
       THEN JArr([i \in DOMAIN obj.v |-> Field(IndexKey(i), obj.v[i])])
       ELSE obj

\* the places of the object where processManifestUrls calls updateUrl: each
\* is the sequence of keys and array indices that leads from obj to the
\* string passed (lines 459-460 for an object value, 468-469 for an array
\* element)
RECURSIVE updateUrlCalls(_, _)
updateUrlCalls(obj, path) ==
    LET KeyOf(k) == IF obj.t = "arr" THEN IndexKey(k) ELSE k
        Item(item, at) ==
            IF item.t = "str" THEN {at} ELSE updateUrlCalls(item, at)
        Field(key, val) ==
            IF key # <<"icons">> /\ val.t = "str" THEN {Append(path, key)}
            ELSE IF val.t = "arr"
            THEN UNION {Item(val.v[i], Append(Append(path, key), IndexKey(i))) :
                           i \in DOMAIN val.v}
            ELSE IF val.t = "obj" THEN updateUrlCalls(val, Append(path, key))
            ELSE {}
    IN IF IsContainer(obj)
       THEN UNION {Field(KeyOf(k), obj.v[k]) : k \in DOMAIN obj.v}
       ELSE {}

(***************************************************************************)
(* updateManifestFile, on the text of an existing manifest file: the text  *)
(* of the file after the call and whether the file was written.  A text    *)
(* that does not parse is caught and logged; the file is left alone.       *)
(***************************************************************************)
HasString(icon, key) ==
    icon.t = "obj" /\ key \in DOMAIN icon.v /\ icon.v[key].t = "str" /\ icon.v[key].v # <<>>

\* a mutant of MapIcon: the type is repaired only when the src changed
MapIconRepairWithSrc(icon, assetConfig, assetMappings) ==
    IF icon.t # "obj" THEN icon
    ELSE JObj([key \in DOMAIN icon.v |->
                 IF key = <<"src">> /\ HasString(icon, key)
                 THEN JStr(updateUrl(icon.v[key].v, assetConfig, assetMappings))
                 ELSE IF /\ key = <<"type">> /\ HasString(icon, key)
                         /\ HasString(icon, <<"src">>)
                         /\ updateUrl(icon.v[<<"src">>].v, assetConfig, assetMappings)
                                # icon.v[<<"src">>].v
                 THEN JStr(fixMimeType(icon.v[key].v))
                 ELSE icon.v[key]])

\* the icons.map callback: src through updateUrl, type through fixMimeType
MapIcon(icon, assetConfig, assetMappings) ==
    IF icon.t # "obj" THEN icon
    ELSE JObj([key \in DOMAIN icon.v |->
                 IF key = <<"src">> /\ HasString(icon, key)
                 THEN JStr(updateUrl(icon.v[key].v, assetConfig, assetMappings))
                 ELSE IF key = <<"type">> /\ HasString(icon, key)
                 THEN JStr(fixMimeType(icon.v[key].v))
                 ELSE icon.v[key]])

HasIconsArray(manifest) ==
    manifest.t = "obj" /\ <<"icons">> \in DOMAIN manifest.v /\ manifest.v[<<"icons">>].t = "arr"

\* the manifest after the icons pass (lines 526-550)
IconsPass(manifest, assetConfig, assetMappings) ==
    IF HasIconsArray(manifest)
    THEN JObj([manifest.v EXCEPT ![<<"icons">>] =
                 JArr([i \in DOMAIN @.v |-> MapIcon(@.v[i], assetConfig, assetMappings)])])
    ELSE manifest

updateManifestFile(text, assetConfig, assetMappings) ==
    IF ~Parses(text) THEN [written |-> FALSE, text |-> text]
    ELSE LET manifest == text.value
             afterIcons == IconsPass(manifest, assetConfig, assetMappings)
             updated == afterIcons # manifest
             afterUrls == processManifestUrls(afterIcons, assetConfig, assetMappings)
         IN IF afterUrls # afterIcons \/ updated
            THEN [written |-> TRUE, text |-> StringifyIndented(afterUrls)]
            ELSE [written |-> FALSE, text |-> text]

(***************************************************************************)
(* HTML documents.  A document is the sequence of its elements in document *)
(* order; an element is its tag name, its attributes and, for a script,    *)
(* its body text.  cheerio's load and html are taken to round-trip.        *)
(***************************************************************************)
Element(tag, attrs, body) == [tag |-> tag, attrs |-> attrs, body |-> body]

HasAttr(el, attr) == attr \in DOMAIN el.attrs

\* $('link[rel="manifest"]')
IsManifestLink(el) == el.tag = "link" /\ HasAttr(el, "rel") /\ el.attrs["rel"] = <<"manifest">>

\* $('script[type="application/ld+json"]')
IsJsonLd(el) ==
    el.tag = "script" /\ HasAttr(el, "type") /\ el.attrs["type"] = <<"application/ld+json">>

\* glob.sync(`${baseDir}/**/manifest-*.json`) over a tree
HashedManifestFiles(tree) ==
    {p \in DOMAIN tree :
        LET base == Basename(p)
        IN /\ Len(base) >= 4
           /\ SubSeq(base, 1, 2) = <<"manifest", "-">>
           /\ EndsWith(base, <<".", "json">>)}

\* glob.sync(`${baseDir}/**/manifest*.json`) over a tree
ManifestFiles(tree) ==
    {p \in DOMAIN tree :
        LET base == Basename(p)
        IN Len(base) >= 3 /\ base[1] = "manifest" /\ EndsWith(base, <<".", "json">>)}

\* glob.sync(`${baseDir}/**/*.html`) over a tree
HtmlFiles(tree) == {p \in DOMAIN tree : EndsWith(p, <<".", "html">>)}

VARIABLES
    enumeration     \* the order in which glob.sync returns paths

\* element [0] of a non-empty glob result: the enumeration order is the
\* platform's; the paths `enumeration` lists come in its order, before any
\* other
FirstMatch(matches) ==
    IF \E i \in DOMAIN enumeration : enumeration[i] \in matches
    THEN enumeration[CHOOSE i \in DOMAIN enumeration :
                        /\ enumeration[i] \in matches
                        /\ \A j \in 1..(i - 1) : enumeration[j] \notin matches]
    ELSE CHOOSE p \in matches : TRUE

\* whether the manifest-link step redirects the href of el (lines 626-639)
RedirectsManifestLink(el, tree) ==
    /\ IsManifestLink(el)
    /\ HasAttr(el, "href")
    /\ el.attrs["href"] # <<>>
    /\ EndsWith(el.attrs["href"], <<"manifest", ".", "json">>)
    /\ HashedManifestFiles(tree) # {}

\* a mutant of UpdateManifestLink: an absolute href stays absolute
UpdateManifestLinkKeepingForm(el, tree) ==
    IF RedirectsManifestLink(el, tree)
    THEN [el EXCEPT !.attrs["href"] =
            IF StartsWith(@, <<"https:">>)
            THEN <<"https:", "/", "/", "test", ".", "com", "/">>
                     \o FirstMatch(HashedManifestFiles(tree))
            ELSE <<"/">> \o FirstMatch(HashedManifestFiles(tree))]
    ELSE el

UpdateManifestLink(el, tree) ==
    IF RedirectsManifestLink(el, tree)
    THEN [el EXCEPT !.attrs["href"] = <<"/">> \o FirstMatch(HashedManifestFiles(tree))]
    ELSE el

\* value.match(/\.(html|css|js|json)$/i)
IsPageOrCodeLink(value) ==
    Len(value) >= 2 /\ value[Len(value) - 1] = "." /\ value[Len(value)] \in {"html", "css", "js", "json"}

\* a mutant of SkipsAnchor: no anchor href is skipped
SkipsAnchorNever(tag, attr, value) == FALSE

\* line 650: the anchor hrefs that are not processed
SkipsAnchor(tag, attr, value) == attr = "href" /\ tag = "a" /\ ~IsPageOrCodeLink(value)

\* lines 656-661: each candidate's URL through updateUrl, its descriptor kept
UpdateSrcset(value, assetConfig, assetMappings) ==
    LET Candidate(srcset) ==
            LET tokens == SplitBlanks(Trim(srcset))
                url == tokens[1]
                hasDescriptor == Len(tokens) >= 2 /\ tokens[2] # <<>>
            IN updateUrl(url, assetConfig, assetMappings)
                   \o (IF hasDescriptor THEN <<" ">> \o tokens[2] ELSE <<>>)
        candidates == Split(value, ",")
    IN Join([i \in DOMAIN candidates |-> Candidate(candidates[i])], <<",", " ">>)

\* $('[src],[href],[content]')
IsUrlElement(el) == DOMAIN el.attrs \cap {"src", "href", "content"} # {}

\* lines 646-677 for one attribute of a selected element
UpdateAttr(el, attr, assetConfig, assetMappings) ==
    LET value == el.attrs[attr]
    IN IF value = <<>> \/ SkipsAnchor(el.tag, attr, value) THEN value
       ELSE IF attr = "srcset" THEN UpdateSrcset(value, assetConfig, assetMappings)
       ELSE updateUrl(value, assetConfig, assetMappings)

UpdateAttrs(el, assetConfig, assetMappings) ==
    IF ~IsUrlElement(el) THEN el
    ELSE [el EXCEPT !.attrs =
            [attr \in DOMAIN el.attrs |->
                IF attr \in {"src", "href", "content", "srcset"}
                THEN UpdateAttr(el, attr, assetConfig, assetMappings)
                ELSE el.attrs[attr]]]

(***************************************************************************)
(* JSON-LD bodies (lines 680-767).                                         *)
(***************************************************************************)
\* key.includes('Image') || key.includes('image')
IncludesImage(key) == \E i \in DOMAIN key : key[i] \in {"Image", "image"}

\* a mutant of IsImageField: the string value of every key is passed
IsImageFieldAnyKey(key) == TRUE

\* the keys whose string value is passed through updateUrl (lines 699-706)
IsImageField(key) ==
    key \in {<<"image">>, <<"logo">>, <<"thumbnail">>, <<"url">>} \/ IncludesImage(key)

\* the keys whose object value has its url passed through updateUrl (line 719)
IsImageObjectKey(key) == key \in {<<"image">>, <<"logo">>} \/ IncludesImage(key)

\* isImageObject: 'url' in v && typeof v.url === 'string'
IsImageObject(value) ==
    value.t = "obj" /\ <<"url">> \in DOMAIN value.v /\ value.v[<<"url">>].t = "str"

\* item.includes('http') || item.startsWith('/')
LooksLikeUrl(item) ==
    (\E i \in DOMAIN item : item[i] \in {"http:", "https:"}) \/ StartsWith(item, <<"/">>)

\* processJsonValues: the value after the call (the source mutates it)
RECURSIVE processJsonValues(_, _, _)
processJsonValues(obj, assetConfig, assetMappings) ==
    LET Url(u) == updateUrl(u, assetConfig, assetMappings)
        Item(item) ==
            IF IsContainer(item) THEN processJsonValues(item, assetConfig, assetMappings)
            ELSE IF item.t = "str" /\ LooksLikeUrl(item.v) THEN JStr(Url(item.v))
            ELSE item
        Entry(key, value) ==
            IF value.t = "str" /\ IsImageField(key) THEN JStr(Url(value.v))
            ELSE IF IsContainer(value)
            THEN LET direct ==
                         IF IsImageObjectKey(key) /\ IsImageObject(value)
                         THEN JObj([value.v EXCEPT ![<<"url">>] = JStr(Url(@.v))])
                         ELSE value
                 IN IF direct.t = "arr"
                    THEN JArr([i \in DOMAIN direct.v |-> Item(direct.v[i])])
                    ELSE processJsonValues(direct, assetConfig, assetMappings)
            ELSE value
    IN IF obj.t = "obj"
       THEN JObj([key \in DOMAIN obj.v |-> Entry(key, obj.v[key])])
       ELSE IF obj.t = "arr"
       THEN JArr([i \in DOMAIN obj.v |-> Entry(IndexKey(i), obj.v[i])])
       ELSE obj

\* whether the script's body is replaced and the file marked changed:
\* initialJson !== updatedJson (line 753), updatedContent !== scriptContent (761)
JsonLdChanged(body, assetConfig, assetMappings) ==
    IF Parses(body)
    THEN LET initialJson == Stringify(body.value)
             updatedJson == StringifyIndented(
                                processJsonValues(body.value, assetConfig, assetMappings))
         IN initialJson # updatedJson
    ELSE updateUrl(body.text, assetConfig, assetMappings) # body.text

\* the body of a JSON-LD script after the pass
UpdateJsonLd(el, assetConfig, assetMappings) ==
    IF ~IsJsonLd(el) \/ ~JsonLdChanged(el.body, assetConfig, assetMappings) THEN el
    ELSE IF Parses(el.body)
    THEN [el EXCEPT !.body = StringifyIndented(
                                 processJsonValues(el.body.value, assetConfig, assetMappings))]
    ELSE [el EXCEPT !.body = RawText(updateUrl(el.body.text, assetConfig, assetMappings))]

(***************************************************************************)
(* The per-document body of updateHtmlFiles (lines 614-783): the document  *)
(* after the three passes and the fileChanged flag.                        *)
(***************************************************************************)
UpdateHtmlDocument(doc, tree, assetConfig, assetMappings) ==
    LET linked == [i \in DOMAIN doc |-> UpdateManifestLink(doc[i], tree)]
        attributed == [i \in DOMAIN doc |-> UpdateAttrs(linked[i], assetConfig, assetMappings)]
        scripted == [i \in DOMAIN doc |-> UpdateJsonLd(attributed[i], assetConfig, assetMappings)]
        fileChanged ==
            \/ \E i \in DOMAIN doc : RedirectsManifestLink(doc[i], tree)
            \/ attributed # linked
            \/ \E i \in DOMAIN doc :
                  IsJsonLd(attributed[i])
                      /\ JsonLdChanged(attributed[i].body, assetConfig, assetMappings)
    IN [doc |-> scripted, fileChanged |-> fileChanged]

(***************************************************************************)
(* updateHtmlFiles over an output tree: the tree after the call and the    *)
(* set of files it wrote.  Manifest files are processed first, then HTML   *)
(* files; each HTML file sees the tree the manifest pass left.             *)
(***************************************************************************)
\* the tree and the files written, given each processed file's result
ApplyResults(tree, manifests, documents) ==
    [tree |-> [p \in DOMAIN tree |->
                  IF p \in DOMAIN manifests THEN manifests[p].text
                  ELSE IF p \in DOMAIN documents /\ documents[p].fileChanged
                  THEN documents[p].doc
                  ELSE tree[p]],
     written |-> {p \in DOMAIN manifests : manifests[p].written}
                     \cup {p \in DOMAIN documents : documents[p].fileChanged}]

updateHtmlFiles(tree, assetConfig, assetMappings) ==
    ApplyResults(tree,
                 [p \in ManifestFiles(tree) |->
                     updateManifestFile(tree[p], assetConfig, assetMappings)],
                 [p \in HtmlFiles(tree) |->
                     UpdateHtmlDocument(tree[p], tree, assetConfig, assetMappings)])

\* the file-system calls of updateHtmlFiles that no try block encloses:
\* readFileSync of an HTML file (line 620) and writeFileSync of a changed
\* HTML file (line 773)
HtmlFaults == {"none", "readFileSync", "writeFileSync"}

\* whether updateHtmlFiles throws when the call `fault` fails on path p
HtmlFileThrows(fault, p, tree, assetConfig, assetMappings) ==
    \/ fault = "readFileSync"
    \/ /\ fault = "writeFileSync"
       /\ UpdateHtmlDocument(tree[p], tree, assetConfig, assetMappings).fileChanged

\* what updateHtmlFiles has done when it throws at the first HTML file: the
\* manifest files are processed (lines 596-603), no HTML file is written
updateHtmlFilesThrown(tree, assetConfig, assetMappings) ==
    ApplyResults(tree,
                 [p \in ManifestFiles(tree) |->
                     updateManifestFile(tree[p], assetConfig, assetMappings)],
                 <<>>)

(***************************************************************************)
(* The Scanner.  A source tree maps paths relative to the source directory *)
(* to contents; an AssetEntry's fullPath is kept relative to the same      *)
(* directory.  Results are sets of entries.                                *)
(***************************************************************************)
MediaExtensions ==
    {"jpg", "jpeg", "png", "svg", "gif", "webp", "avif", "mp4", "webm", "ico"}

\* a mutant of ScanPath: the query and the fragment are kept
ScanPathKeepingQuery(str, baseUrl) ==
    StripLeadingSlashes(IF StartsWith(str, baseUrl) THEN Slice(str, Len(baseUrl)) ELSE str)

\* the path findAssetsInString derives from str (lines 100-101)
ScanPath(str, baseUrl) ==
    StripLeadingSlashes(
        BeforeQueryOrHash(IF StartsWith(str, baseUrl) THEN Slice(str, Len(baseUrl)) ELSE str))

\* /\.(jpg|jpeg|png|svg|gif|webp|avif|mp4|webm|ico)$/i
HasMediaExtension(p) ==
    Len(p) >= 2 /\ p[Len(p) - 1] = "." /\ p[Len(p)] \in MediaExtensions

\* whether a file name matches a glob pattern with no '/', in which '*'
\* stands for any run of symbols
RECURSIVE GlobMatches(_, _)
GlobMatches(pattern, name) ==
    IF pattern = <<>> THEN name = <<>>
    ELSE IF Head(pattern) = "*"
    THEN \E k \in 0..Len(name) : GlobMatches(Tail(pattern), SubSeq(name, k + 1, Len(name)))
    ELSE name # <<>> /\ Head(name) = Head(pattern) /\ GlobMatches(Tail(pattern), Tail(name))

\* glob.sync(`${srcDir}/**/${name}`) over a tree
FilesNamed(srcTree, name) == {f \in DOMAIN srcTree : GlobMatches(name, Basename(f))}

findAssetsInString(str, baseUrl, srcTree) ==
    LET p == ScanPath(str, baseUrl)
        matches == FilesNamed(srcTree, Basename(p))
    IN IF ~HasMediaExtension(p) THEN {}
       ELSE IF Normalize(p) \in DOMAIN srcTree
       THEN {[originalPath |-> p, fullPath |-> Normalize(p)]}
       ELSE IF matches # {} THEN {[originalPath |-> p, fullPath |-> FirstMatch(matches)]}
       ELSE {}

RECURSIVE findAssetsInJson(_, _, _)
\* the loop body of findAssetsInJson for one entry value (lines 142-150)
RECURSIVE findAssetsInEntry(_, _, _)
findAssetsInEntry(value, baseUrl, srcTree) ==
    IF value.t = "str" THEN findAssetsInString(value.v, baseUrl, srcTree)
    ELSE IF value.t = "arr"
    THEN UNION {findAssetsInJson(value.v[i], baseUrl, srcTree) : i \in DOMAIN value.v}
    ELSE IF value.t = "obj" THEN findAssetsInJson(value, baseUrl, srcTree)
    ELSE {}

findAssetsInJson(obj, baseUrl, srcTree) ==
    IF ~IsContainer(obj) THEN {}
    ELSE UNION {findAssetsInEntry(obj.v[key], baseUrl, srcTree) : key \in DOMAIN obj.v}

\* content.trim() starts with '{' or '[', and JSON.parse succeeds
findAssetsInJsonOrString(content, baseUrl, srcTree) ==
    IF Parses(content) /\ IsContainer(content.value)
    THEN findAssetsInJson(content.value, baseUrl, srcTree)
    ELSE IF Parses(content) THEN {}
    ELSE findAssetsInString(content.text, baseUrl, srcTree)

\* meta[property^="og:image"], meta[name^="twitter:image"],
\* meta[name^="twitter:player:stream"]
IsSocialMeta(el) ==
    /\ el.tag = "meta"
    /\ \/ HasAttr(el, "property") /\ StartsWith(el.attrs["property"], <<"og:image">>)
       \/ HasAttr(el, "name") /\ StartsWith(el.attrs["name"], <<"twitter:image">>)
       \/ HasAttr(el, "name") /\ StartsWith(el.attrs["name"], <<"twitter:player:stream">>)

\* the entries one element of a source document contributes (lines 204-253)
ElementAssets(el, baseUrl, srcTree) ==
    (IF IsSocialMeta(el) /\ HasAttr(el, "content") /\ el.attrs["content"] # <<>>
     THEN findAssetsInString(el.attrs["content"], baseUrl, srcTree) ELSE {})
    \cup
    (IF el.tag = "img" /\ HasAttr(el, "src") /\ el.attrs["src"] # <<>>
     THEN findAssetsInString(el.attrs["src"], baseUrl, srcTree) ELSE {})
    \cup
    (IF IsJsonLd(el) /\ el.body # NoText
     THEN IF Parses(el.body) THEN findAssetsInJson(el.body.value, baseUrl, srcTree)
          ELSE findAssetsInString(el.body.text, baseUrl, srcTree)
     ELSE {})

ManifestJson == <<"manifest", ".", "json">>

\* every entry the scan of a source tree finds
ScannedEntries(srcTree, baseUrl) ==
    UNION {UNION {ElementAssets(srcTree[f][i], baseUrl, srcTree) : i \in DOMAIN srcTree[f]}
              : f \in HtmlFiles(srcTree)}
    \cup
    (IF ManifestJson \in DOMAIN srcTree
     THEN findAssetsInJsonOrString(srcTree[ManifestJson], baseUrl, srcTree) ELSE {})

\* findUnreferencedAssets: originalPath -> fullPath, the first entry seen for
\* an originalPath kept
EntriesByPath(entries) ==
    [p \in {e.originalPath : e \in entries} |->
        (CHOOSE e \in entries : e.originalPath = p).fullPath]

findUnreferencedAssets(srcTree, baseUrl) == EntriesByPath(ScannedEntries(srcTree, baseUrl))

\* the files findUnreferencedAssets reads outside any try block: every HTML
\* file (line 198) and manifest.json when it exists (line 259)
ScannerReads(srcTree) == HtmlFiles(srcTree) \cup ({ManifestJson} \cap DOMAIN srcTree)

(***************************************************************************)
(* createAssetMappings over the output tree (paths relative to baseDir).   *)
(***************************************************************************)
MappedExtensions ==
    {"jpg", "jpeg", "png", "svg", "gif", "webp", "avif", "mp4", "webm", "css", "js", "json"}

\* glob.sync(`${assetsDir}/**/*.{jpg,...,json}`)
OutputFiles(tree, assetsSubdir) ==
    {p \in DOMAIN tree :
        /\ StartsWith(p, assetsSubdir \o <<"/">>)
        /\ Len(p) >= 2 /\ p[Len(p) - 1] = "." /\ p[Len(p)] \in MappedExtensions}

\* parsed.name.split('-')
NameParts(relativePath) == Split(PathParse(relativePath).name, "-")

\* a mutant of BaseNameOf: only the first '-' separated part is kept
BaseNameFirstPart(relativePath) == NameParts(relativePath)[1]

\* parts.slice(0, -1).join('-')
BaseNameOf(relativePath) ==
    LET parts == NameParts(relativePath)
    IN Join(SubSeq(parts, 1, Len(parts) - 1), <<"-">>)

\* parsed.dir.replace(/^assets\//, '')
DirectoryOf(relativePath) ==
    LET dir == PathParse(relativePath).dir
    IN IF StartsWith(dir, <<"assets", "/">>) THEN Slice(dir, 2) ELSE dir

\* fullKey (line 399); the bare key of line 405 is the same string
FullKey(relativePath) ==
    LET directory == DirectoryOf(relativePath)
        name == BaseNameOf(relativePath) \o PathParse(relativePath).ext
    IN IF directory # <<>> THEN directory \o <<"/">> \o name ELSE name

\* files whose name has the hash pattern (line 390)
HashedOutputFiles(tree, assetsSubdir) ==
    {p \in OutputFiles(tree, assetsSubdir) : Len(NameParts(p)) >= 2}

\* when several files give one key the last enumerated wins; one fixed
\* enumeration order is taken
createAssetMappings(tree, assetsSubdir) ==
    LET files == HashedOutputFiles(tree, assetsSubdir)
    IN [key \in {FullKey(p) : p \in files} |-> CHOOSE p \in files : FullKey(p) = key]

(***************************************************************************)
(* processMissingAssets.                                                   *)
(***************************************************************************)
\* the first 8 hex digits of the MD5 digest of a file content
MD5Hex8 ==
    [c \in {"png-bytes-1", "png-bytes-2", "svg-bytes-1", "svg-bytes-2"} |->
        CASE c = "png-bytes-1" -> "0f343b09"
          [] c = "png-bytes-2" -> "8d777f38"
          [] c = "svg-bytes-1" -> "9e107d9d"
          [] c = "svg-bytes-2" -> "e4d909c2"]

\* the assets of the scan that the mapping lacks (lines 299-304)
MissingAssets(sourceAssets, assetMappings) ==
    {p \in DOMAIN sourceAssets : ~Mapped(assetMappings, p)}

\* a mutant of TargetPath: every copy of one extension goes to one file
TargetPathShared(missingAsset, content, assetsSubdir) ==
    PathJoin(assetsSubdir, <<"copy">> \o PathParse(missingAsset).ext)

\* targetPath relative to baseDir (lines 323-344)
TargetPath(missingAsset, content, assetsSubdir) ==
    LET parsedAsset == PathParse(missingAsset)
        hashedFilename == parsedAsset.name \o <<"-", MD5Hex8[content]>> \o parsedAsset.ext
    IN PathJoin(PathJoin(assetsSubdir, parsedAsset.dir), hashedFilename)

\* the directory the reconciler scans: the literal 'src' of line 294
ScannedSourceDir == "src"

\* a mutant of CopyAssets: the returned mapping starts empty instead of as a
\* copy of the passed one
CopyAssetsWithoutSpread(tree, assetMappings, targets, contents) ==
    [mappings |-> targets,
     tree |-> [t \in DOMAIN tree \cup {targets[p] : p \in DOMAIN targets} |->
                  IF \E p \in DOMAIN targets : targets[p] = t
                  THEN contents[CHOOSE p \in DOMAIN targets : targets[p] = t]
                  ELSE tree[t]]]

\* the loop of lines 310-355 over the assets whose copy does not throw:
\* `targets` gives each its targetPath, `contents` the bytes copied
CopyAssets(tree, assetMappings, targets, contents) ==
    [mappings |-> [p \in DOMAIN assetMappings \cup DOMAIN targets |->
                      IF p \in DOMAIN targets THEN targets[p] ELSE assetMappings[p]],
     tree |-> [t \in DOMAIN tree \cup {targets[p] : p \in DOMAIN targets} |->
                  IF \E p \in DOMAIN targets : targets[p] = t
                  THEN contents[CHOOSE p \in DOMAIN targets : targets[p] = t]
                  ELSE tree[t]]]

\* a mutant of CopyMissing: one try block around the whole loop, so a failure
\* ends the copying
CopyMissingOneTry(srcTree, sourceAssets, tree, assetConfig, assetMappings, failing) ==
    IF failing # {} THEN [mappings |-> assetMappings, tree |-> tree]
    ELSE CopyAssets(tree, assetMappings,
               [p \in MissingAssets(sourceAssets, assetMappings) |->
                   TargetPath(p, srcTree[sourceAssets[p]], assetConfig.assetsSubdir)],
               [p \in MissingAssets(sourceAssets, assetMappings) |->
                   srcTree[sourceAssets[p]]])

\* lines 294-358; the assets of `failing` are those whose read, mkdir or copy
\* throws inside the try block of lines 311-354
CopyMissing(srcTree, sourceAssets, tree, assetConfig, assetMappings, failing) ==
    CopyAssets(tree, assetMappings,
               [p \in MissingAssets(sourceAssets, assetMappings) \ failing |->
                   TargetPath(p, srcTree[sourceAssets[p]], assetConfig.assetsSubdir)],
               [p \in MissingAssets(sourceAssets, assetMappings) \ failing |->
                   srcTree[sourceAssets[p]]])

\* the mapping returned and the output tree left when the copies of the
\* assets in `failing` throw
processMissingAssets(sources, tree, assetConfig, assetMappings, failing) ==
    CopyMissing(sources[ScannedSourceDir],
                findUnreferencedAssets(sources[ScannedSourceDir], assetConfig.siteBaseUrl),
                tree, assetConfig, assetMappings, failing)

(***************************************************************************)
(* The builds the model explores.                                          *)
(***************************************************************************)
SiteBaseUrl == <<"https:", "/", "/", "test", ".", "com">>

AssetsSubdir == <<"assets">>

SourceDirs == {"src", "site"}

Abs(path) == SiteBaseUrl \o <<"/">> \o path
Rel(path) == <<"/">> \o path

LogoPng == <<"images", "/", "logo", ".", "png">>
SlashedLogoPng == <<"images", "/", "/", "logo", ".", "png">>
BrandSvg == <<"images", "/", "brand", ".", "svg">>
GhostSvg == <<"images", "/", "ghost", ".", "svg">>
IconPng == <<"icons", "/", "icon", ".", "png">>
CoverSvg == <<"media", "/", "cover", ".", "svg">>
MainJs == <<"assets", "/", "main", ".", "js">>
IndexHtml == <<"index", ".", "html">>

HashedLogo == <<"assets", "/", "images", "/", "logo", "-", "9f3ab21c", ".", "png">>
HashedIcon == <<"assets", "/", "icons", "/", "icon", "-", "ab12cd34", ".", "png">>
HashedHero == <<"assets", "/", "images", "/", "hero", "-", "banner", "-", "77aa88bb", ".", "webp">>
HashedMain == <<"assets", "/", "main", "-", "5e6f7a8b", ".", "js">>
HashedManifest == <<"assets", "/", "manifest", "-", "c0ffee12", ".", "json">>
PlainPng == <<"assets", "/", "images", "/", "plain", ".", "png">>
HashedFavicon == <<"assets", "/", "icons", "/", "favicon", "-", "1a2b3c4d", ".", "ico">>

Meta(property, content) ==
    Element("meta", [property |-> property, content |-> content], NoText)
Img(src) == Element("img", [src |-> src], NoText)
Anchor(href) == Element("a", [href |-> href], NoText)
Link(rel, href) == Element("link", [rel |-> rel, href |-> href], NoText)
JsonLd(body) == Element("script", [type |-> <<"application/ld+json">>], body)

\* the elements a document is made of
Elems ==
    { Meta(<<"og:image">>, Abs(LogoPng)),
      Meta(<<"og:image">>, Rel(BrandSvg)),
      Meta(<<"og:image">>, Abs(LogoPng) \o <<"?", "v=2">>),
      Meta(<<"description">>, <<"hello">>),
      Img(Rel(LogoPng)),
      Img(<<"/", "cover", ".", "svg">>),
      Element("img", [src |-> Rel(IconPng),
                      srcset |-> Rel(LogoPng) \o <<" ", "2x", ",", " ">> \o Rel(GhostSvg)],
              NoText),
      Element("source", [srcset |-> Rel(LogoPng) \o <<" ", "2x">>], NoText),
      Anchor(Rel(LogoPng)),
      Anchor(Rel(MainJs)),
      Link(<<"manifest">>, <<"/", "manifest", ".", "json">>),
      Link(<<"manifest">>, Abs(<<"assets", "/", "manifest", ".", "json">>)),
      Link(<<"manifest">>, <<"/", "site", ".", "webmanifest">>),
      Link(<<"canonical">>, <<"/", "constructor">>),
      JsonLd(JsonText("compact", JObj((<<"logo">> :> JStr(Rel(GhostSvg)))
                                      @@ (<<"name">> :> JStr(<<"Test">>))))),
      JsonLd(JsonText("other", JObj((<<"image">> :> JObj((<<"url">> :> JStr(Abs(LogoPng)))))
                                    @@ (<<"sameAs">> :> JArr(<<JStr(Rel(BrandSvg))>>))
                                    @@ (<<"encoding">> :> JStr(Rel(SlashedLogoPng)))))),
      JsonLd(JsonText("compact", JObj(<<>>))),
      JsonLd(RawText(Rel(LogoPng))) }

Docs == UNION {[1..n -> Elems] : n \in 1..MaxElems}

Icon(src, type) ==
    JObj((<<"src">> :> JStr(src)) @@ (<<"type">> :> JStr(type))
         @@ (<<"sizes">> :> JStr(<<"192x192">>)))

\* the texts of the web manifest
Manifests ==
    { JsonText("other",
               JObj((<<"name">> :> JStr(<<"App">>))
                    @@ (<<"icons">> :> JArr(<<Icon(Rel(IconPng),
                                                   <<"image", "/", "image", "/", "png">>)>>)))),
      JsonText("other",
               JObj((<<"start_url">> :> JStr(<<"/">>))
                    @@ (<<"icons">> :> JArr(<<Icon(Rel(GhostSvg),
                                                   <<"image", "/", "image", "/", "svg+xml">>)>>)))),
      JsonText("indent2",
               JObj((<<"screenshots">> :> JArr(<<JStr(Rel(LogoPng))>>))
                    @@ (<<"icons">> :> JArr(<<Icon(Abs(IconPng), <<"image", "/", "png">>),
                                              Icon(Rel(BrandSvg),
                                                   <<"image", "/", "svg+xml">>)>>)))),
      RawText(Rel(LogoPng)) }

\* the source directory of a project
SourceTree(doc, manifest) ==
    (IndexHtml :> doc) @@ (ManifestJson :> manifest)
    @@ (LogoPng :> "png-bytes-1") @@ (IconPng :> "png-bytes-2")
    @@ (BrandSvg :> "svg-bytes-1") @@ (CoverSvg :> "svg-bytes-2")

\* the client output the bundler leaves: documents passed through, assets
\* written under assets/ as [name]-[hash][extname]
OutputTree(doc, manifest, logoBundled) ==
    (IndexHtml :> doc) @@ (HashedManifest :> manifest)
    @@ (HashedIcon :> "png-bytes-2") @@ (HashedHero :> "webp-bytes") @@ (PlainPng :> "png-bytes-3")
    @@ (HashedMain :> "js-bytes") @@ (HashedFavicon :> "ico-bytes")
    @@ (IF logoBundled THEN (HashedLogo :> "png-bytes-1") ELSE <<>>)

NoTree == <<>>

(***************************************************************************)
(* The arguments PostBuildAssetsProcessorPlugin may be called with.  A      *)
(* value that may be undefined is Undefined or Defined(v); an object is a   *)
(* function from the names of the properties it has.                        *)
(***************************************************************************)
Undefined == [defined |-> FALSE]
Defined(v) == [defined |-> TRUE, v |-> v]

\* may be v or undefined, for each v of the set
Optional(values) == {Undefined} \cup {Defined(v) : v \in values}

\* the object literal with the properties that are defined
AssetConfigObject(srcDir, outputDir, assetsSubdir, siteBaseUrl) ==
    LET given == [srcDir |-> srcDir, outputDir |-> outputDir,
                  assetsSubdir |-> assetsSubdir, siteBaseUrl |-> siteBaseUrl]
    IN [n \in {m \in DOMAIN given : given[m].defined} |-> given[n].v]

\* the objects passed as assetConfig, whatever properties of AssetConfig
\* (lines 12-21) they lack
AssetConfigObjects ==
    {AssetConfigObject(srcDir, outputDir, assetsSubdir, siteBaseUrl) :
        srcDir \in Optional({"src", "site"}), outputDir \in Optional({"dist", "build"}),
        assetsSubdir \in Optional({AssetsSubdir}),
        siteBaseUrl \in Optional({SiteBaseUrl, <<>>})}

\* the values passed as options
OptionsValues ==
    {Undefined, Defined([assetConfig |-> Undefined])}
        \cup {Defined([assetConfig |-> Defined(c)]) : c \in AssetConfigObjects}

\* options.assetConfig as read at line 811; reading a property of undefined
\* gives nothing to close over
AssetConfigOf(opts) ==
    IF opts.defined /\ opts.v.assetConfig.defined THEN opts.v.assetConfig.v ELSE <<>>

\* a mutant of ConstructorThrows: only the options object is checked
ConstructorThrowsWithoutOptions(opts) == ~opts.defined

\* line 807: !options || !options.assetConfig
ConstructorThrows(opts) == ~opts.defined \/ ~opts.v.assetConfig.defined

(***************************************************************************)
(* State.                                                                  *)
(***************************************************************************)
VARIABLES
    options,        \* the argument of PostBuildAssetsProcessorPlugin
    assetConfig,    \* the AssetConfig the plugin was constructed with
    sources,        \* the source directories of the project: name -> tree
    outTree,        \* the client output directory (clientDir)
    pc,             \* the position of closeBundle
    assetMappings,  \* closeBundle's assetMappings (step 1)
    finalMappings,  \* closeBundle's finalMappings (step 2)
    failedCopies,   \* the missing assets whose copy threw (logged, line 353)
    before,         \* the output tree when the last updateHtmlFiles call began
    written,        \* the files the last updateHtmlFiles call wrote
    runs,           \* updateHtmlFiles calls made over this output tree
    request,        \* the request the edge worker's fetch was called with
    forwarded,      \* the requests passed to env.ASSETS.fetch, in order
    assetResponse,  \* what env.ASSETS.fetch resolved to
    response,       \* what the worker's fetch resolved to
    mimeInput,      \* a string handed to fixMimeType
    mimeType,       \* the string after the calls of fixMimeType made so far
    fixes,          \* the calls of fixMimeType made, each on the last result
    ssr,            \* resolvedConfig.build.ssr when closeBundle fires
    cloudflareBuild,\* process.env.CLOUDFLARE_BUILD when closeBundle fires
    clientDirExists,\* fs.existsSync(clientDir) when closeBundle fires
    scanTree,       \* the source tree a scan is made over
    scanInput,      \* a string handed to findAssetsInString
    scanEntries,    \* what findAssetsInString returned for scanInput
    scans,          \* the results of the calls of findUnreferencedAssets made
    swEvent,        \* the event the service worker's listener is called with
    swPc,           \* the position of the listener and of its promise chain
    cached,         \* the Cache Storage: request URL -> stored response
    adding,         \* the cache.add calls in flight
    addFailed,      \* the cache.add calls that rejected
    respondWithCalls, \* the calls of event.respondWith made
    responded,      \* what the promise given to respondWith resolved with
    puts,           \* the cache.put calls in flight under event.waitUntil
    network         \* what fetch(request) settled with

\* the state of the MIME-type repair
mimeVars == <<mimeInput, mimeType, fixes>>

\* no MIME type is being repaired
MimeIdle == mimeInput = <<>> /\ mimeType = <<>> /\ fixes = 0

\* the build phase closeBundle fires in
phaseVars == <<ssr, cloudflareBuild, clientDirExists>>

\* the state of a scan made on its own
scanVars == <<enumeration, scanTree, scanInput, scanEntries, scans>>

\* the state of the service worker
swVars == <<swEvent, swPc, cached, adding, addFailed, respondWithCalls, responded, puts,
           network>>

\* the state of the edge worker
workerVars == <<request, forwarded, assetResponse, response>>

vars == <<options, assetConfig, sources, outTree, pc, assetMappings, finalMappings,
          failedCopies, before, written, runs, workerVars, mimeVars, phaseVars, scanVars,
          swVars>>

\* no request is in flight
WorkerIdle ==
    /\ request = Undefined
    /\ forwarded = <<>>
    /\ assetResponse = Undefined
    /\ response = Undefined

\* no build is running
PhaseIdle == ssr = FALSE /\ cloudflareBuild = Undefined /\ clientDirExists = FALSE

\* no scan is made on its own
ScanIdle ==
    /\ enumeration = <<>>
    /\ scanTree = NoTree
    /\ scanInput = <<>>
    /\ scanEntries = {}
    /\ scans = <<>>

\* no service worker event is handled
SwIdle ==
    /\ swEvent = Undefined
    /\ swPc = "idle"
    /\ cached = <<>>
    /\ adding = {}
    /\ addFailed = {}
    /\ respondWithCalls = 0
    /\ responded = Undefined
    /\ puts = {}
    /\ network = Undefined

\* the values process.env.CLOUDFLARE_BUILD has in the builds explored
CloudflareBuildValues == {Undefined, Defined("true")}

\* a mutant of SkipsWorkerPhase: closeBundle never returns early for it
SkipsWorkerPhaseNever(isSsr, marker) == FALSE

\* line 834: resolvedConfig.build.ssr && process.env.CLOUDFLARE_BUILD === 'true'
SkipsWorkerPhase(isSsr, marker) == isSsr /\ marker = Defined("true")

Init ==
    \E doc \in Docs, manifest \in Manifests, srcDir \in SourceDirs, logoBundled \in BOOLEAN :
        /\ assetConfig = [srcDir |-> srcDir, outputDir |-> "dist",
                          assetsSubdir |-> AssetsSubdir, siteBaseUrl |-> SiteBaseUrl]
        /\ options = Defined([assetConfig |->
                                  Defined([srcDir |-> srcDir, outputDir |-> "dist",
                                           assetsSubdir |-> AssetsSubdir,
                                           siteBaseUrl |-> SiteBaseUrl])])
        /\ sources = [d \in SourceDirs |->
                         IF d = srcDir THEN SourceTree(doc, manifest) ELSE NoTree]
        /\ ssr \in BOOLEAN
        /\ cloudflareBuild \in CloudflareBuildValues
        /\ clientDirExists \in BOOLEAN
        /\ outTree = IF clientDirExists THEN OutputTree(doc, manifest, logoBundled) ELSE NoTree
        /\ pc = "closeBundle"
        /\ assetMappings = <<>>
        /\ finalMappings = <<>>
        /\ failedCopies = {}
        /\ before = NoTree
        /\ written = {}
        /\ runs = 0
        /\ WorkerIdle
        /\ MimeIdle
        /\ ScanIdle
        /\ SwIdle

\* closeBundle up to step 1 (lines 822-851): it returns at once in the worker
\* phase of a combined build, and when the client directory is missing
CloseBundle ==
    /\ pc = "closeBundle"
    /\ pc' = IF SkipsWorkerPhase(ssr, cloudflareBuild) THEN "skipped"
             ELSE IF ~clientDirExists THEN "Client directory not found"
             ELSE "createAssetMappings"
    /\ UNCHANGED <<phaseVars, scanVars, swVars, mimeVars, workerVars, options, assetConfig,
                   sources, outTree, assetMappings, finalMappings, failedCopies, before,
                   written, runs>>

\* closeBundle step 1 (line 853)
CreateAssetMappings ==
    /\ pc = "createAssetMappings"
    /\ assetMappings' = createAssetMappings(outTree, assetConfig.assetsSubdir)
    /\ pc' = "processMissingAssets"
    /\ UNCHANGED <<phaseVars, scanVars, swVars, mimeVars, workerVars, options, assetConfig, sources, outTree, finalMappings, failedCopies,
                   before, written, runs>>

\* closeBundle step 2 (line 856); any of the copies may throw (caught, line
\* 352), and so may a read of the scan (not caught: it leaves closeBundle)
ProcessMissingAssets ==
    /\ pc = "processMissingAssets"
    /\ \/ /\ \E failing \in SUBSET MissingAssets(
                                findUnreferencedAssets(sources[ScannedSourceDir],
                                                       assetConfig.siteBaseUrl),
                                assetMappings) :
                LET result == processMissingAssets(sources, outTree, assetConfig,
                                                   assetMappings, failing)
                IN /\ finalMappings' = result.mappings
                   /\ outTree' = result.tree
                   /\ failedCopies' = failing
          /\ pc' = "updateHtmlFiles"
       \/ /\ ScannerReads(sources[ScannedSourceDir]) # {}
          /\ pc' = "threw"
          /\ UNCHANGED <<finalMappings, outTree, failedCopies>>
    /\ UNCHANGED <<phaseVars, scanVars, swVars, mimeVars, workerVars, options, assetConfig, sources, assetMappings, before, written, runs>>

\* one call of updateHtmlFiles with finalMappings
RunUpdateHtmlFiles ==
    LET result == updateHtmlFiles(outTree, assetConfig, finalMappings)
    IN /\ before' = outTree
       /\ outTree' = result.tree
       /\ written' = result.written
       /\ runs' = runs + 1

\* a call of updateHtmlFiles that throws at the first HTML file
RunUpdateHtmlFilesThrown ==
    LET result == updateHtmlFilesThrown(outTree, assetConfig, finalMappings)
    IN /\ before' = outTree
       /\ outTree' = result.tree
       /\ written' = result.written
       /\ runs' = runs + 1

\* closeBundle step 3 (line 860); a read or a write of an HTML file may fail
UpdateHtmlFiles ==
    /\ pc = "updateHtmlFiles"
    /\ \E fault \in HtmlFaults, p \in HtmlFiles(outTree) :
          IF HtmlFileThrows(fault, p, outTree, assetConfig, finalMappings)
          THEN RunUpdateHtmlFilesThrown /\ pc' = "threw"
          ELSE RunUpdateHtmlFiles /\ pc' = "done"
    /\ UNCHANGED <<phaseVars, scanVars, swVars, mimeVars, workerVars, options, assetConfig, sources, assetMappings, finalMappings, failedCopies>>

\* the Rewriter run again over the same output tree with the same mapping
UpdateHtmlFilesAgain ==
    /\ pc = "done"
    /\ runs < MaxRuns
    /\ RunUpdateHtmlFiles
    /\ UNCHANGED <<phaseVars, scanVars, swVars, mimeVars, workerVars, options, assetConfig, sources, pc, assetMappings, finalMappings, failedCopies>>

Next ==
    \/ CloseBundle
    \/ CreateAssetMappings
    \/ ProcessMissingAssets
    \/ UpdateHtmlFiles
    \/ UpdateHtmlFilesAgain

Spec == Init /\ [][Next]_vars

(***************************************************************************)
(* The construction of the plugin (lines 802-814), before any hook runs.   *)
(***************************************************************************)
InitPlugin ==
    /\ options \in OptionsValues
    /\ assetConfig = <<>>
    /\ sources = <<>>
    /\ outTree = NoTree
    /\ pc = "PostBuildAssetsProcessorPlugin"
    /\ assetMappings = <<>>
    /\ finalMappings = <<>>
    /\ failedCopies = {}
    /\ before = NoTree
    /\ written = {}
    /\ runs = 0
    /\ WorkerIdle
    /\ MimeIdle
    /\ PhaseIdle
    /\ ScanIdle
    /\ SwIdle

\* PostBuildAssetsProcessorPlugin(options): throws, or returns the plugin
\* object whose hooks close over assetConfig
PostBuildAssetsProcessorPlugin ==
    /\ pc = "PostBuildAssetsProcessorPlugin"
    /\ IF ConstructorThrows(options)
       THEN pc' = "Error: assetConfig is required" /\ UNCHANGED assetConfig
       ELSE pc' = "constructed" /\ assetConfig' = AssetConfigOf(options)
    /\ UNCHANGED <<phaseVars, scanVars, swVars, mimeVars, workerVars, options, sources, outTree, assetMappings, finalMappings,
                   failedCopies, before, written, runs>>

NextPlugin == PostBuildAssetsProcessorPlugin

SpecPlugin == InitPlugin /\ [][NextPlugin]_vars

(***************************************************************************)
(* The edge worker (cloudflare/index.ts): fetch(request, env, ctx).  The    *)
(* handler runs up to its await of env.ASSETS.fetch, and resumes when the   *)
(* asset store has answered.                                                *)
(***************************************************************************)
HttpNotFound == 404

HttpResponse(status, body, headers) == [status |-> status, body |-> body, headers |-> headers]

\* new Response('Method Not Allowed', { status: 405 })
MethodNotAllowed ==
    HttpResponse(405, "Method Not Allowed", [ContentType |-> "text/plain;charset=UTF-8"])

\* the response of lines 14-18
AssetNotFound ==
    HttpResponse(HttpNotFound, "Asset not found. Check the URL or try again later.",
                 [ContentType |-> "text/plain"])

\* the requests a client sends
Requests ==
    [method : {"GET", "HEAD", "POST", "PUT", "DELETE"},
     url : {"/index.html", "/404", "/assets/images/logo-9f3ab21c.png", "/"}]

\* the responses the asset store gives
AssetResponses ==
    {HttpResponse(status, body, [ContentType |-> type]) :
        status \in {200, 206, 304, 404, 500},
        body \in {"<!doctype html>", ""},
        type \in {"text/html", "image/png"}}

\* a mutant of Answer: the asset store's response is always passed on
AnswerPassThrough(res) == res

\* lines 12-22: what fetch returns for the asset store's response
Answer(res) == IF res.status = HttpNotFound THEN AssetNotFound ELSE res

InitWorker ==
    /\ request \in {Defined(r) : r \in Requests}
    /\ forwarded = <<>>
    /\ assetResponse = Undefined
    /\ response = Undefined
    /\ options = Undefined
    /\ assetConfig = <<>>
    /\ sources = <<>>
    /\ outTree = NoTree
    /\ pc = "fetch"
    /\ MimeIdle
    /\ assetMappings = <<>>
    /\ finalMappings = <<>>
    /\ failedCopies = {}
    /\ before = NoTree
    /\ written = {}
    /\ runs = 0
    /\ PhaseIdle
    /\ ScanIdle
    /\ SwIdle

\* fetch up to its first await (lines 3-10)
Fetch ==
    /\ pc = "fetch"
    /\ IF "GET" # request.v.method
       THEN /\ response' = Defined(MethodNotAllowed)
            /\ pc' = "returned"
            /\ UNCHANGED forwarded
       ELSE /\ forwarded' = Append(forwarded, request.v)
            /\ pc' = "await env.ASSETS.fetch"
            /\ UNCHANGED response
    /\ UNCHANGED <<phaseVars, scanVars, swVars, mimeVars, request, assetResponse, options, assetConfig, sources, outTree,
                   assetMappings, finalMappings, failedCopies, before, written, runs>>

\* the asset store answers and fetch runs to its return (lines 10-22)
AssetsFetched ==
    /\ pc = "await env.ASSETS.fetch"
    /\ \E res \in AssetResponses :
          /\ assetResponse' = Defined(res)
          /\ response' = Defined(Answer(res))
    /\ pc' = "returned"
    /\ UNCHANGED <<phaseVars, scanVars, swVars, mimeVars, request, forwarded, options, assetConfig, sources, outTree,
                   assetMappings, finalMappings, failedCopies, before, written, runs>>

NextWorker ==
    \/ Fetch
    \/ AssetsFetched

SpecWorker == InitWorker /\ [][NextWorker]_vars

(***************************************************************************)
(* fixMimeType on its own: a string is handed to it, and its result is     *)
(* handed to it again.                                                     *)
(***************************************************************************)
\* the segments MIME type strings are made of
MimeSegments == TopLevelTypes \cup {"png"}

\* the strings seg/seg/.../seg of at most MaxSegments segments, and ''
MimeTypes ==
    {<<>>} \cup
    UNION {{Join([i \in 1..n |-> <<segs[i]>>], <<"/">>) : segs \in [1..n -> MimeSegments]} :
              n \in 1..MaxSegments}

\* the calls of fixMimeType made on one string
MaxFixes == 2

InitMime ==
    /\ mimeInput \in MimeTypes
    /\ mimeType = mimeInput
    /\ fixes = 0
    /\ WorkerIdle
    /\ options = Undefined
    /\ assetConfig = <<>>
    /\ sources = <<>>
    /\ outTree = NoTree
    /\ pc = "fixMimeType"
    /\ assetMappings = <<>>
    /\ finalMappings = <<>>
    /\ failedCopies = {}
    /\ before = NoTree
    /\ written = {}
    /\ runs = 0
    /\ PhaseIdle
    /\ ScanIdle
    /\ SwIdle

\* one call of fixMimeType on the last result
FixMimeType ==
    /\ pc = "fixMimeType"
    /\ fixes < MaxFixes
    /\ mimeType' = fixMimeType(mimeType)
    /\ fixes' = fixes + 1
    /\ UNCHANGED <<phaseVars, scanVars, swVars, mimeInput, workerVars, options, assetConfig, sources, outTree, pc,
                   assetMappings, finalMappings, failedCopies, before, written, runs>>

NextMime == FixMimeType

SpecMime == InitMime /\ [][NextMime]_vars

(***************************************************************************)
(* The Scanner on its own: findAssetsInString is handed one string, then   *)
(* findUnreferencedAssets scans the tree, again after the platform has     *)
(* changed the order in which it enumerates files.                         *)
(***************************************************************************)
\* no build is configured or running
BuildIdle ==
    /\ options = Undefined
    /\ assetConfig = <<>>
    /\ sources = <<>>
    /\ outTree = NoTree
    /\ assetMappings = <<>>
    /\ finalMappings = <<>>
    /\ failedCopies = {}
    /\ before = NoTree
    /\ written = {}
    /\ runs = 0
    /\ PhaseIdle

AltCoverSvg == <<"art", "/", "cover", ".", "svg">>
AboutHtml == <<"about", ".", "html">>
CoverUrl == <<"/", "cover", ".", "svg">>

\* the strings handed to findAssetsInString
ScanStrings ==
    { <<>>, <<"hello">>,
      Abs(LogoPng), Rel(LogoPng), LogoPng,
      Abs(LogoPng) \o <<"?", "v=2">>,
      Rel(BrandSvg) \o <<"#", "top">>,
      <<"/", "/">> \o IconPng,
      <<"/">> \o Abs(LogoPng),
      SiteBaseUrl \o Abs(LogoPng),
      Rel(GhostSvg),
      CoverUrl,
      Rel(MainJs),
      <<"/", "img", "/", "*", ".", "png">> }

\* the media files of the source trees
ScanAssets ==
    (LogoPng :> "png-bytes-1") @@ (IconPng :> "png-bytes-2")
    @@ (BrandSvg :> "svg-bytes-1") @@ (CoverSvg :> "svg-bytes-2")

\* the source trees scanned: none, one document, and two documents that both
\* reference /cover.svg over a tree with two files of that name
ScanTrees ==
    { NoTree,
      (IndexHtml :> <<Img(Rel(LogoPng))>>) @@ ScanAssets,
      (IndexHtml :> <<Img(CoverUrl)>>)
      @@ (AboutHtml :> <<Meta(<<"og:image">>, SiteBaseUrl \o CoverUrl)>>)
      @@ ScanAssets @@ (AltCoverSvg :> "svg-bytes-1") }

\* the orders in which the platform may enumerate the files named cover.svg
Enumerations == {<<CoverSvg, AltCoverSvg>>, <<AltCoverSvg, CoverSvg>>}

\* the scans made of one tree
MaxScans == 2

InitScan ==
    /\ enumeration \in Enumerations
    /\ scanTree \in ScanTrees
    /\ scanInput \in ScanStrings
    /\ scanEntries = {}
    /\ scans = <<>>
    /\ pc = "findAssetsInString"
    /\ BuildIdle
    /\ WorkerIdle
    /\ MimeIdle
    /\ SwIdle

\* findAssetsInString(scanInput, baseUrl, srcDir)
FindAssetsInString ==
    /\ pc = "findAssetsInString"
    /\ scanEntries' = findAssetsInString(scanInput, SiteBaseUrl, scanTree)
    /\ pc' = "findUnreferencedAssets"
    /\ UNCHANGED <<enumeration, scanTree, scanInput, scans>>
    /\ UNCHANGED <<phaseVars, swVars, mimeVars, workerVars, options, assetConfig, sources,
                   outTree, assetMappings, finalMappings, failedCopies, before, written, runs>>

\* findUnreferencedAssets(srcDir, baseUrl) over the same tree
FindUnreferencedAssets ==
    /\ pc = "findUnreferencedAssets"
    /\ Len(scans) < MaxScans
    /\ scans' = Append(scans, findUnreferencedAssets(scanTree, SiteBaseUrl))
    /\ UNCHANGED <<enumeration, scanTree, scanInput, scanEntries, pc>>
    /\ UNCHANGED <<phaseVars, swVars, mimeVars, workerVars, options, assetConfig, sources,
                   outTree, assetMappings, finalMappings, failedCopies, before, written, runs>>

\* between two scans the platform comes to enumerate the files in another
\* order (glob 11 does not sort its results)
Reorder ==
    /\ pc = "findUnreferencedAssets"
    /\ scans # <<>> /\ Len(scans) < MaxScans
    /\ enumeration' \in Enumerations \ {enumeration}
    /\ UNCHANGED <<scanTree, scanInput, scanEntries, scans, pc>>
    /\ UNCHANGED <<phaseVars, swVars, mimeVars, workerVars, options, assetConfig, sources,
                   outTree, assetMappings, finalMappings, failedCopies, before, written, runs>>

NextScan ==
    \/ FindAssetsInString
    \/ FindUnreferencedAssets
    \/ Reorder

SpecScan == InitScan /\ [][NextScan]_vars

(***************************************************************************)
(* The service worker (sw/service-worker.ts): the install and the fetch    *)
(* listener, each called with one event, and the promise chains they       *)
(* start.  The network may fail; the Cache Storage does what it is asked.  *)
(* A request URL is its origin and its pathname; the cache named cacheName *)
(* maps pathnames to responses.                                            *)
(***************************************************************************)
OfflineHtml == <<"/", "offline", ".", "html">>

\* line 12
coreAssets == {OfflineHtml}

\* line 24
CACHEABLE_EXTENSIONS ==
    {"js", "css", "json", "woff", "woff2", "ttf", "eot", "png", "jpg", "jpeg", "gif", "webp",
     "svg", "ico", "mp4", "webm", "mp3", "wav"}

\* the atoms of the pathnames explored that are five or more letters or digits
FiveOrMore == {"9f3ab21c", "offline", "about", "assets"}

\* line 34: /[-_.][a-zA-Z0-9]{5,}\.[a-zA-Z0-9]+$/ on the pathname
hasHashPattern(pathname) ==
    /\ Len(pathname) >= 4
    /\ pathname[Len(pathname) - 3] \in {"-", "_", "."}
    /\ pathname[Len(pathname) - 2] \in FiveOrMore
    /\ pathname[Len(pathname) - 1] = "."
    /\ pathname[Len(pathname)] \notin {"/", ".", "-", "?", "#", ",", " "}

\* lines 40-65
shouldCache(pathname) ==
    \/ hasHashPattern(pathname)
    \/ pathname \in {<<"/", "service-worker", ".", "js">>, OfflineHtml,
                     <<"/", "manifest", ".", "json">>}
    \/ LET pieces == Split(pathname, ".")
       IN pieces[Len(pieces)] \in {<<e>> : e \in CACHEABLE_EXTENSIONS}

\* s.includes(sub)
Includes(s, sub) ==
    \E i \in 1..(Len(s) - Len(sub) + 1) : SubSeq(s, i, i + Len(sub) - 1) = sub

\* the Accept headers requests carry; <<>> when there is none
AcceptValues ==
    { <<"text", "/", "html", ",", "application", "/", "xhtml+xml">>,
      <<"image", "/", "png">>,
      <<"text", "/", "css">>,
      <<>> }

\* the requests fetch events carry
SwRequests ==
    [method : {"GET", "POST"},
     origin : {"self", "other"},
     pathname : {<<"/", "about">>, <<"/", "assets", "/", "logo", "-", "9f3ab21c", ".", "png">>,
                 OfflineHtml, <<"/", "api", "/", "data">>},
     accept : AcceptValues,
     cachemode : {<<"default", "navigate">>, <<"only-if-cached", "same-origin">>,
                  <<"only-if-cached", "no-cors">>}]

\* what the network answers when it answers
NetworkResponses ==
    {HttpResponse(200, "from the network", [ContentType |-> "text/html"]),
     HttpResponse(HttpNotFound, "not found", [ContentType |-> "text/html"])}

\* fetch(request) resolved with a response, or rejected
Resolved(res) == [rejected |-> FALSE, response |-> res]
Rejected503 == HttpResponse(503, "", [ContentType |-> ""])
NetworkRejected == [rejected |-> TRUE, response |-> Rejected503]
NetworkOutcomes == {Resolved(res) : res \in NetworkResponses} \cup {NetworkRejected}

\* what the cache holds when the event fires
StoredPage == HttpResponse(200, "from the cache", [ContentType |-> "text/html"])
StoredOffline == HttpResponse(200, "you are offline", [ContentType |-> "text/html"])
InitialCaches(pathnames) ==
    {<<>>, (OfflineHtml :> StoredOffline)}
    \cup {(q :> StoredPage) : q \in pathnames \ {OfflineHtml}}
    \cup {(q :> StoredPage) @@ (OfflineHtml :> StoredOffline) : q \in pathnames \ {OfflineHtml}}

\* lines 127-133
OfflinePageNotFound ==
    HttpResponse(503, "Offline page not found", [ContentType |-> "text/plain"])

\* a mutant of HtmlFallback: the offline page is not looked up
HtmlFallbackWithoutOfflinePage(pathname, cache) ==
    IF pathname \in DOMAIN cache THEN cache[pathname] ELSE OfflinePageNotFound

\* lines 123-135: the response of the HTML branch when the network failed
HtmlFallback(pathname, cache) ==
    IF pathname \in DOMAIN cache THEN cache[pathname]
    ELSE IF OfflineHtml \in DOMAIN cache THEN cache[OfflineHtml]
    ELSE OfflinePageNotFound

\* lines 162-191: the response of the asset branch when the network failed
AssetFallback(accept) ==
    IF Includes(accept, <<"text", "/", "css">>)
    THEN HttpResponse(200, "/* Offline stylesheet */", [ContentType |-> "text/css"])
    ELSE IF Includes(accept, <<"text", "/", "javascript">>)
    THEN HttpResponse(200, "/* Offline script */", [ContentType |-> "text/javascript"])
    ELSE IF Includes(accept, <<"image">>) \/ Includes(accept, <<"audio">>)
            \/ Includes(accept, <<"video">>)
    THEN HttpResponse(503, "", [ContentType |-> ""])
    ELSE HttpResponse(503, "Resource unavailable offline", [ContentType |-> ""])

\* lines 201-206
NetworkRequestFailed == HttpResponse(503, "Network request failed", [ContentType |-> ""])

\* everything but the service worker's state
notSwVars ==
    <<phaseVars, scanVars, mimeVars, workerVars, options, assetConfig, sources, outTree, pc,
      assetMappings, finalMappings, failedCopies, before, written, runs>>

InstallEvent == [type |-> "install"]
FetchEvent(req) == [type |-> "fetch", request |-> req]

InitSw ==
    /\ \/ /\ swEvent = Defined(InstallEvent)
          /\ swPc = "install"
          /\ cached \in InitialCaches({})
       \/ /\ \E req \in SwRequests :
                /\ swEvent = Defined(FetchEvent(req))
                /\ cached \in InitialCaches({req.pathname})
          /\ swPc = "fetch"
    /\ adding = {}
    /\ addFailed = {}
    /\ respondWithCalls = 0
    /\ responded = Undefined
    /\ puts = {}
    /\ network = Undefined
    /\ pc = "service worker"
    /\ BuildIdle
    /\ WorkerIdle
    /\ MimeIdle
    /\ ScanIdle

\* the install listener (lines 75-85): waitUntil is given the promise of
\* caches.open(cacheName).then(...)
InstallListener ==
    /\ swPc = "install"
    /\ swPc' = "install: caches.open"
    /\ UNCHANGED <<swEvent, cached, adding, addFailed, respondWithCalls, responded, puts,
                   network, notSwVars>>

\* the callback of lines 78-83: each cache.add is started and not awaited,
\* the cache is returned, and the promise given to waitUntil resolves
CacheOpened ==
    /\ swPc = "install: caches.open"
    /\ adding' = coreAssets
    /\ swPc' = "installed"
    /\ UNCHANGED <<swEvent, cached, addFailed, respondWithCalls, responded, puts, network,
                   notSwVars>>

\* one cache.add settles: the asset was fetched with an ok status and is
\* stored, or the add rejects
CacheAddSettled ==
    /\ \E asset \in adding, outcome \in NetworkOutcomes :
          /\ adding' = adding \ {asset}
          /\ IF ~outcome.rejected /\ outcome.response.status = 200
             THEN /\ cached' = (asset :> outcome.response) @@ cached
                  /\ UNCHANGED addFailed
             ELSE /\ addFailed' = addFailed \cup {asset}
                  /\ UNCHANGED cached
    /\ UNCHANGED <<swEvent, swPc, respondWithCalls, responded, puts, network, notSwVars>>

\* the fetch listener (lines 90-208) up to its return
FetchListener ==
    /\ swPc = "fetch"
    /\ LET req == swEvent.v.request
       IN IF req.cachemode[1] = "only-if-cached" /\ req.cachemode[2] # "same-origin"
          THEN swPc' = "returned" /\ UNCHANGED respondWithCalls
          ELSE IF req.method # "GET" \/ req.origin # "self"
          THEN swPc' = "returned" /\ UNCHANGED respondWithCalls
          ELSE IF Includes(req.accept, <<"text", "/", "html">>)
          THEN swPc' = "html: fetch" /\ respondWithCalls' = respondWithCalls + 1
          ELSE IF shouldCache(req.pathname)
          THEN swPc' = "asset: caches.match" /\ respondWithCalls' = respondWithCalls + 1
          ELSE swPc' = "other: fetch" /\ respondWithCalls' = respondWithCalls + 1
    /\ UNCHANGED <<swEvent, cached, adding, addFailed, responded, puts, network, notSwVars>>

\* HTML branch: fetch(request) settles (lines 111-123)
HtmlFetchSettled ==
    /\ swPc = "html: fetch"
    /\ \E outcome \in NetworkOutcomes :
          /\ network' = Defined(outcome)
          /\ IF outcome.rejected
             THEN /\ swPc' = "html: caches.match"
                  /\ UNCHANGED <<responded, puts>>
             ELSE /\ puts' = puts \cup {[pathname |-> swEvent.v.request.pathname,
                                        response |-> outcome.response]}
                  /\ responded' = Defined(outcome.response)
                  /\ swPc' = "responded"
    /\ UNCHANGED <<swEvent, cached, adding, addFailed, respondWithCalls, notSwVars>>

\* HTML branch: the catch callback (lines 123-135)
HtmlCacheMatched ==
    /\ swPc = "html: caches.match"
    /\ responded' = Defined(HtmlFallback(swEvent.v.request.pathname, cached))
    /\ swPc' = "responded"
    /\ UNCHANGED <<swEvent, cached, adding, addFailed, respondWithCalls, puts, network,
                   notSwVars>>

\* asset branch: caches.match(request) settles (lines 143-150)
AssetCacheMatched ==
    /\ swPc = "asset: caches.match"
    /\ IF swEvent.v.request.pathname \in DOMAIN cached
       THEN /\ responded' = Defined(cached[swEvent.v.request.pathname])
            /\ swPc' = "responded"
       ELSE /\ swPc' = "asset: fetch"
            /\ UNCHANGED responded
    /\ UNCHANGED <<swEvent, cached, adding, addFailed, respondWithCalls, puts, network,
                   notSwVars>>

\* asset branch: fetch(request) settles (lines 150-191)
AssetFetchSettled ==
    /\ swPc = "asset: fetch"
    /\ \E outcome \in NetworkOutcomes :
          /\ network' = Defined(outcome)
          /\ IF outcome.rejected
             THEN /\ responded' = Defined(AssetFallback(swEvent.v.request.accept))
                  /\ UNCHANGED puts
             ELSE /\ puts' = puts \cup {[pathname |-> swEvent.v.request.pathname,
                                        response |-> outcome.response]}
                  /\ responded' = Defined(outcome.response)
    /\ swPc' = "responded"
    /\ UNCHANGED <<swEvent, cached, adding, addFailed, respondWithCalls, notSwVars>>

\* every other request: fetch(request) settles (lines 199-207)
OtherFetchSettled ==
    /\ swPc = "other: fetch"
    /\ \E outcome \in NetworkOutcomes :
          /\ network' = Defined(outcome)
          /\ responded' = Defined(IF outcome.rejected THEN NetworkRequestFailed
                                  ELSE outcome.response)
    /\ swPc' = "responded"
    /\ UNCHANGED <<swEvent, cached, adding, addFailed, respondWithCalls, puts, notSwVars>>

\* a cache.put given to event.waitUntil settles (lines 115-119, 154-158)
CachePut ==
    /\ \E put \in puts :
          /\ cached' = (put.pathname :> put.response) @@ cached
          /\ puts' = puts \ {put}
    /\ UNCHANGED <<swEvent, swPc, adding, addFailed, respondWithCalls, responded, network,
                   notSwVars>>

NextSw ==
    \/ InstallListener
    \/ CacheOpened
    \/ CacheAddSettled
    \/ FetchListener
    \/ HtmlFetchSettled
    \/ HtmlCacheMatched
    \/ AssetCacheMatched
    \/ AssetFetchSettled
    \/ OtherFetchSettled
    \/ CachePut

SpecSw == InitSw /\ [][NextSw]_vars

\* promise reactions are run by the event loop, and every fetch and every
\* cache operation settles
SpecSwFair == SpecSw /\ WF_vars(NextSw)

(***************************************************************************)
(* Properties.                                                             *)
(***************************************************************************)
\* closeBundle was left by an exception
Threw == pc = "threw"

Rewritten == pc = "done"

Reconciled == pc \in {"updateHtmlFiles", "done"}

\* the attribute positions of the HTML documents of the last Rewriter run
Positions ==
    {<<p, i, attr>> \in HtmlFiles(before) \X (1..MaxElems) \X {"src", "href", "content"} :
        i \in DOMAIN before[p] /\ HasAttr(before[p][i], attr)}

Before(pos) == before[pos[1]][pos[2]].attrs[pos[3]]
After(pos) == outTree[pos[1]][pos[2]].attrs[pos[3]]
IsAnchorHref(pos) == before[pos[1]][pos[2]].tag = "a" /\ pos[3] = "href"

\* updateUrl maps both forms of every mapped key to the same form of its value
RoundTrip ==
    \A k \in DOMAIN finalMappings :
        /\ updateUrl(Rel(k), assetConfig, finalMappings) = Rel(finalMappings[k])
        /\ updateUrl(Abs(k), assetConfig, finalMappings) = Abs(finalMappings[k])

\* the attribute at pos, when it held a form of a mapped key, holds the same
\* form of the key's value
FormPreserved(pos) ==
    \A k \in DOMAIN finalMappings :
        /\ Before(pos) = Rel(k) => After(pos) = Rel(finalMappings[k])
        /\ Before(pos) = Abs(k) => After(pos) = Abs(finalMappings[k])

\* C1 as stated: round trip with form preservation, for every src, content
\* and non-anchor href attribute of every output document
C1_RoundTripEveryAttribute ==
    /\ Reconciled => RoundTrip
    /\ Rewritten => \A pos \in Positions : ~IsAnchorHref(pos) => FormPreserved(pos)

\* C1 amended: round trip with form preservation, for every src, content and
\* non-anchor href attribute except the href of a manifest link that the
\* Rewriter redirects to the hashed manifest file
C1_RoundTrip ==
    /\ Reconciled => RoundTrip
    /\ Rewritten =>
          \A pos \in Positions :
              ~IsAnchorHref(pos) /\ ~RedirectsManifestLink(before[pos[1]][pos[2]], before)
                  => FormPreserved(pos)

\* an og:image content held the absolute form of a mapped key and now holds
\* the absolute form of its hashed path (Scenario A)
C1_Witness ==
    /\ Rewritten /\ runs = 1
    /\ \E pos \in Positions :
          /\ pos[3] = "content"
          /\ Before(pos) = Abs(LogoPng)
          /\ LogoPng \in DOMAIN finalMappings
          /\ After(pos) = Abs(finalMappings[LogoPng])
          /\ After(pos) # Before(pos)

\* C2 as stated: a second run of the Rewriter with the same mapping writes
\* no file
C2_SecondRunWritesNothing == Rewritten /\ runs >= 2 => written = {}

\* whether a value of the element (an attribute, a JSON-LD value, a raw
\* script text) differs between the two versions of it
ValueReplaced(old, new) ==
    \/ old.attrs # new.attrs
    \/ /\ IsJsonLd(old)
       /\ IF Parses(old.body) /\ Parses(new.body) THEN old.body.value # new.body.value
          ELSE old.body # new.body

\* C3 as stated: an HTML document is written if and only if a value in it
\* was replaced by a different value
C3_WrittenIffReplaced ==
    Rewritten =>
        \A p \in HtmlFiles(before) :
            p \in written <=> \E i \in DOMAIN before[p] : ValueReplaced(before[p][i], outTree[p][i])

\* C4 as stated: every reference of the configured source directory that the
\* initial mapping lacks and whose copy did not fail is mapped to a copy named
\* <name>-<md5 8><ext> under the assets directory, identical to its source
C4_MissingAssetsRecovered ==
    Reconciled =>
        \A e \in ScannedEntries(sources[assetConfig.srcDir], assetConfig.siteBaseUrl) :
            e.originalPath \notin DOMAIN assetMappings /\ e.originalPath \notin failedCopies
                => LET content == sources[assetConfig.srcDir][e.fullPath]
                       parsed == PathParse(e.originalPath)
                       target == PathJoin(PathJoin(assetConfig.assetsSubdir, parsed.dir),
                                          parsed.name \o <<"-", MD5Hex8[content]>> \o parsed.ext)
                   IN /\ e.originalPath \in DOMAIN finalMappings
                      /\ finalMappings[e.originalPath] = target
                      /\ target \in DOMAIN outTree
                      /\ outTree[target] = content

\* the hashed URL the reference str should become: the form of str, the
\* hashed path of the originalPath the Scanner derives from str
HashedForm(str) ==
    LET p == ScanPath(str, assetConfig.siteBaseUrl)
    IN IF StartsWith(str, assetConfig.siteBaseUrl)
       THEN Abs(finalMappings[p]) ELSE Rel(finalMappings[p])

\* str, when the Scanner accepts it, is mapped and was replaced by `out`
ReferenceRewritten(str, out) ==
    findAssetsInString(str, assetConfig.siteBaseUrl, sources[assetConfig.srcDir]) # {}
        => /\ ScanPath(str, assetConfig.siteBaseUrl) \in DOMAIN finalMappings
           /\ LookupKey(str, assetConfig) = ScanPath(str, assetConfig.siteBaseUrl)
           /\ out = HashedForm(str)

\* every string findAssetsInJson scans in `obj` is rewritten in `out`
RECURSIVE JsonRewritten(_, _)
RECURSIVE EntryRewritten(_, _)
EntryRewritten(value, out) ==
    IF value.t = "str" THEN out.t = "str" /\ ReferenceRewritten(value.v, out.v)
    ELSE IF value.t = "arr" THEN \A i \in DOMAIN value.v : JsonRewritten(value.v[i], out.v[i])
    ELSE IF value.t = "obj" THEN JsonRewritten(value, out)
    ELSE TRUE

JsonRewritten(obj, out) ==
    IsContainer(obj) => \A key \in DOMAIN obj.v : EntryRewritten(obj.v[key], out.v[key])

\* every place the Scanner reads in a source element holds the hashed form
\* in the output element
ElementRewritten(el, out) ==
    /\ IsSocialMeta(el) /\ HasAttr(el, "content")
          => ReferenceRewritten(el.attrs["content"], out.attrs["content"])
    /\ el.tag = "img" /\ HasAttr(el, "src")
          => ReferenceRewritten(el.attrs["src"], out.attrs["src"])
    /\ IsJsonLd(el) /\ Parses(el.body) => Parses(out.body) /\ JsonRewritten(el.body.value, out.body.value)
    /\ IsJsonLd(el) /\ ~Parses(el.body) /\ el.body # NoText
          => ~Parses(out.body) /\ ReferenceRewritten(el.body.text, out.body.text)

\* C5 as stated: after one full pass without I/O failure every reference the
\* Scanner accepts in a source document is replaced in the output document
\* by the hashed path mapped from its originalPath
C5_EveryScannedReferenceRewritten ==
    Rewritten /\ runs = 1 /\ failedCopies = {} =>
        LET srcTree == sources[assetConfig.srcDir]
        IN /\ \A i \in DOMAIN srcTree[IndexHtml] :
                 ElementRewritten(srcTree[IndexHtml][i], outTree[IndexHtml][i])
           /\ Parses(srcTree[ManifestJson])
                 => /\ Parses(outTree[HashedManifest])
                    /\ JsonRewritten(srcTree[ManifestJson].value, outTree[HashedManifest].value)

\* every value of the final mapping is a file of the output tree
MappedFilesExist == \A k \in DOMAIN finalMappings : finalMappings[k] \in DOMAIN outTree

\* C6 as stated: every value of the final mapping is an existing output file,
\* so every URL the Rewriter writes resolves to an existing output file
C6_NoBrokenLink ==
    Rewritten =>
        /\ MappedFilesExist
        /\ \A pos \in Positions :
              After(pos) # Before(pos) => LookupKey(After(pos), assetConfig) \in DOMAIN outTree

\* C7: the file name of every value of the initial mapping is the key's name,
\* a '-', a hash without '-', and the key's extension
C7_HashPattern ==
    \A k \in DOMAIN assetMappings :
        LET key == PathParse(k)
            value == PathParse(assetMappings[k])
        IN /\ value.ext = key.ext
           /\ StartsWith(value.name, key.name \o <<"-">>)
           /\ \A i \in (Len(key.name) + 2)..Len(value.name) : value.name[i] # "-"

\* the mapping was built and holds the key of a file whose name has two '-'
C7_Witness ==
    /\ pc = "processMissingAssets"
    /\ <<"images", "/", "hero", "-", "banner", ".", "webp">> \in DOMAIN assetMappings
    /\ LogoPng \in DOMAIN assetMappings

\* the icons of a manifest text
Icons(text) == text.value.v[<<"icons">>].v

C9_AnchorsUntouched ==
    Rewritten =>
        \A pos \in Positions :
            IsAnchorHref(pos) /\ ~IsPageOrCodeLink(Before(pos)) => After(pos) = Before(pos)

\* an anchor whose lookup key is mapped kept its href
C9_Witness ==
    /\ Rewritten /\ runs = 1
    /\ \E pos \in Positions :
          /\ IsAnchorHref(pos)
          /\ Before(pos) = Rel(LogoPng)
          /\ LogoPng \in DOMAIN finalMappings
          /\ After(pos) = Rel(LogoPng)

\* C10 as stated: updateUrl returns unchanged every URL whose lookup key is
\* not a key of the mapping
C10_UnmappedUnchanged ==
    Rewritten =>
        \A pos \in Positions :
            LookupKey(Before(pos), assetConfig) \notin DOMAIN finalMappings
                => updateUrl(Before(pos), assetConfig, finalMappings) = Before(pos)

\* C11 closeBundle returns normally whatever the source and the output trees
\* hold: no read, parse, write or copy failure propagates out of it
C11_CloseBundleNeverThrows == ~Threw

\* the plugin was constructed or the constructor threw
Constructed == pc = "constructed"
Rejected == pc = "Error: assetConfig is required"

\* the properties an assetConfig object must have
RequiredOptions == {"srcDir", "outputDir", "assetsSubdir", "siteBaseUrl"}

\* options is an object with an assetConfig object
HasAssetConfig == options.defined /\ options.v.assetConfig.defined

\* options has an assetConfig with all four required options
HasCompleteConfig ==
    HasAssetConfig /\ RequiredOptions \subseteq DOMAIN options.v.assetConfig.v

\* C12 (as stated) the constructor throws without options or assetConfig, and
\* rejects every configuration that lacks one of the four required options
C12_IncompleteConfigRejected ==
    (Constructed \/ Rejected) => (Rejected <=> ~HasCompleteConfig)

\* C12 (amended) the constructor throws exactly when options or its
\* assetConfig is missing; an assetConfig object is accepted whatever options
\* it lacks, and the hooks close over that object
C12_MissingConfigRejected ==
    /\ (Constructed \/ Rejected) => (Rejected <=> ~HasAssetConfig)
    /\ Constructed => assetConfig = AssetConfigOf(options)
    /\ Constructed /\ HasCompleteConfig => DOMAIN assetConfig = RequiredOptions

C12_Witness ==
    \/ Rejected /\ options.defined /\ ~options.v.assetConfig.defined
    \/ Constructed /\ ~HasCompleteConfig

\* the worker's fetch has returned
Returned == pc = "returned"

\* C13 a request that is not a GET is answered 405 and never forwarded to the
\* asset store; a GET that the asset store answers 404 is answered 404 with
\* the plain-text body; otherwise the asset store's response is returned
C13_WorkerDispatch ==
    /\ request.defined /\ request.v.method # "GET" => forwarded = <<>>
    /\ Returned /\ request.v.method # "GET" => response.v.status = 405
    /\ Returned /\ request.v.method = "GET" =>
          /\ forwarded = <<request.v>>
          /\ IF assetResponse.v.status = 404
             THEN /\ response.v.status = 404
                  /\ response.v.body = "Asset not found. Check the URL or try again later."
                  /\ response.v.headers.ContentType = "text/plain"
             ELSE response = assetResponse

C13_Witness ==
    /\ Returned
    /\ request.v.method = "GET"
    /\ assetResponse.v.status = 404
    /\ assetResponse.v.body # response.v.body

\* the href positions of the manifest links of the last Rewriter run
ManifestLinkPositions ==
    {pos \in Positions : pos[3] = "href" /\ IsManifestLink(before[pos[1]][pos[2]])}

\* the href the manifest-link step writes: '/' + the first manifest-*.json
HashedManifestHref(tree) == <<"/">> \o FirstMatch(HashedManifestFiles(tree))

\* C14 (as stated) when a manifest-*.json file exists, every manifest link of
\* every output document has the href '/' + the path of the first such file
C14_EveryManifestLinkRedirected ==
    Rewritten /\ HashedManifestFiles(before) # {} =>
        \A pos \in ManifestLinkPositions : After(pos) = HashedManifestHref(before)

\* C14 (amended) when a manifest-*.json file exists, a manifest link whose
\* href ends in manifest.json gets the href '/' + the path of the first such
\* file, passed through updateUrl like any href; every other manifest link
\* gets updateUrl of its own href
C14_ManifestLinkRedirect ==
    Rewritten /\ HashedManifestFiles(before) # {} =>
        \A pos \in ManifestLinkPositions :
            IF EndsWith(Before(pos), <<"manifest", ".", "json">>)
            THEN /\ After(pos) = updateUrl(HashedManifestHref(before), assetConfig,
                                           finalMappings)
                 /\ HashedManifestHref(before) \notin
                        {Rel(k) : k \in DOMAIN finalMappings \cup DOMAIN ObjectPrototype}
                        => After(pos) = HashedManifestHref(before)
            ELSE After(pos) = updateUrl(Before(pos), assetConfig, finalMappings)

\* an absolute manifest href was redirected to the site-relative hashed file
C14_Witness ==
    /\ Rewritten /\ runs = 1
    /\ \E pos \in ManifestLinkPositions :
          /\ Before(pos) = Abs(<<"assets", "/", "manifest", ".", "json">>)
          /\ After(pos) = Rel(HashedManifest)

\* the mapping of step 1 is built and the output tree is as step 1 saw it
MappingBuilt == pc = "processMissingAssets"

\* the key the claim gives a hashed output file: its path relative to the
\* assets sub-directory with the hash taken out of the name
KeyRelativeToAssets(relativePath) ==
    LET inAssets == Slice(relativePath, Len(assetConfig.assetsSubdir) + 1)
        parsed == PathParse(inAssets)
        name == BaseNameOf(inAssets) \o parsed.ext
    IN IF parsed.dir # <<>> THEN parsed.dir \o <<"/">> \o name ELSE name

\* C15 a hashed file directly in the assets sub-directory is registered under
\* the bare key <basename><ext>, a file in a sub-directory under
\* <directory>/<basename><ext> with the directory relative to the assets
\* sub-directory; the value is the file's output-root-relative path
C15_KeysRelativeToAssets ==
    MappingBuilt =>
        \A f \in HashedOutputFiles(outTree, assetConfig.assetsSubdir) :
            /\ KeyRelativeToAssets(f) \in DOMAIN assetMappings
            /\ assetMappings[KeyRelativeToAssets(f)] = f

\* every string that occurs in a JSON value, as an object value or as an
\* array element, at any depth
RECURSIVE StringsIn(_)
StringsIn(json) ==
    IF json.t = "str" THEN {json.v}
    ELSE IF IsContainer(json) THEN UNION {StringsIn(json.v[k]) : k \in DOMAIN json.v}
    ELSE {}

\* the JSON values of a source tree: the JSON-LD bodies and manifest.json
SourceJsonValues(srcTree) ==
    {srcTree[f][i].body.value :
        <<f, i>> \in {<<g, j>> \in HtmlFiles(srcTree) \X (1..MaxElems) :
                         /\ j \in DOMAIN srcTree[g]
                         /\ IsJsonLd(srcTree[g][j])
                         /\ Parses(srcTree[g][j].body)}}
    \cup {srcTree[f].value : f \in {g \in {ManifestJson} \cap DOMAIN srcTree : Parses(srcTree[g])}}

\* C16 findAssetsInJson returns the entry of every string of the JSON value
\* that findAssetsInString resolves, wherever the string occurs
C16_JsonScanExhaustive ==
    Reconciled =>
        \A d \in DOMAIN sources :
            \A json \in SourceJsonValues(sources[d]) :
                \A str \in StringsIn(json) :
                    findAssetsInString(str, assetConfig.siteBaseUrl, sources[d])
                        \subseteq findAssetsInJson(json, assetConfig.siteBaseUrl, sources[d])

\* the candidates of a srcset value, trimmed
SrcsetCandidates(value) ==
    LET candidates == Split(value, ",")
    IN [i \in DOMAIN candidates |-> Trim(candidates[i])]

\* the URL of a candidate: what precedes its first blank
CandidateUrl(candidate) == SubSeq(candidate, 1, FirstIndexIn(candidate, {" "}, 1) - 1)

\* the candidate with its URL through updateUrl and the rest kept verbatim
CandidateRewritten(candidate) ==
    updateUrl(CandidateUrl(candidate), assetConfig, finalMappings)
        \o Slice(candidate, Len(CandidateUrl(candidate)))

\* the elements of the last Rewriter run that carry a srcset attribute
SrcsetPositions ==
    {<<p, i>> \in HtmlFiles(before) \X (1..MaxElems) :
        i \in DOMAIN before[p] /\ HasAttr(before[p][i], "srcset")}

\* C17 every element with a srcset attribute, with or without src, href or
\* content, has each candidate's URL replaced by updateUrl of it and the
\* rest of the candidate kept
C17_EverySrcsetRewritten ==
    Rewritten =>
        \A pos \in SrcsetPositions :
            LET old == SrcsetCandidates(before[pos[1]][pos[2]].attrs["srcset"])
                new == SrcsetCandidates(outTree[pos[1]][pos[2]].attrs["srcset"])
            IN /\ Len(new) = Len(old)
               /\ \A j \in DOMAIN old : new[j] = CandidateRewritten(old[j])

\* the manifest files about to be rewritten
ManifestsToRewrite ==
    IF pc = "updateHtmlFiles"
    THEN {p \in ManifestFiles(outTree) : Parses(outTree[p])}
    ELSE {}

\* C18 processManifestUrls applies updateUrl to no value inside the top-level
\* icons array: an icon's src passes through updateUrl in the icons pass
\* only, and its other fields never
C18_IconsSkipped ==
    \A p \in ManifestsToRewrite :
        \A path \in updateUrlCalls(
                        IconsPass(outTree[p].value, assetConfig, finalMappings), <<>>) :
            path[1] # <<"icons">>

\* the JSON-LD scripts of the last Rewriter run whose body does not parse
MalformedScripts ==
    {<<p, i>> \in HtmlFiles(before) \X (1..MaxElems) :
        /\ i \in DOMAIN before[p]
        /\ IsJsonLd(before[p][i])
        /\ ~Parses(before[p][i].body)}

\* the text rewritten as one string through updateUrl
RawRewritten(text) == RawText(updateUrl(text.text, assetConfig, finalMappings))

\* C19 a manifest file or a JSON-LD body that does not parse has its raw text
\* rewritten as one string through updateUrl, and the other manifests and
\* documents of the batch are processed as usual
C19_MalformedJsonRewrittenRaw ==
    Rewritten =>
        /\ \A p \in ManifestFiles(before) :
              IF Parses(before[p])
              THEN outTree[p] = updateManifestFile(before[p], assetConfig, finalMappings).text
              ELSE outTree[p] = RawRewritten(before[p])
        /\ \A pos \in MalformedScripts :
              outTree[pos[1]][pos[2]].body = RawRewritten(before[pos[1]][pos[2]].body)
        /\ \A p \in HtmlFiles(before) :
              outTree[p] = UpdateHtmlDocument(before[p], before, assetConfig, finalMappings).doc

\* the string begins with '<type>/<type>/': a top-level type written twice
BeginsWithTypeTwice(str) ==
    /\ Len(str) >= 4
    /\ str[1] \in TopLevelTypes /\ str[2] = "/" /\ str[3] = str[1] /\ str[4] = "/"

\* C20 the result of fixMimeType never begins with a top-level type written
\* twice, so a second call changes nothing; and a string that does not begin
\* with a top-level type written twice is returned unchanged
C20_MimeRepairComplete ==
    /\ fixes >= 1 => ~BeginsWithTypeTwice(mimeType)
    /\ fixes >= 1 => fixMimeType(mimeType) = mimeType
    /\ fixes = 1 /\ ~BeginsWithTypeTwice(mimeInput) => mimeType = mimeInput

\* the hashed files of every recognised media type under the assets directory
HashedMediaFiles(tree) ==
    {f \in DOMAIN tree :
        /\ StartsWith(f, assetConfig.assetsSubdir \o <<"/">>)
        /\ HasMediaExtension(f)
        /\ Len(NameParts(f)) >= 2}

\* C21 every hashed output file whose extension the Scanner recognises as
\* media is enumerated by createAssetMappings and is the value of an entry
C21_MediaFilesMapped ==
    MappingBuilt =>
        \A f \in HashedMediaFiles(outTree) :
            \E k \in DOMAIN assetMappings : assetMappings[k] = f

\* the JSON-LD scripts of the last Rewriter run whose body parses
ParsedScripts ==
    {<<p, i>> \in HtmlFiles(before) \X (1..MaxElems) :
        /\ i \in DOMAIN before[p]
        /\ IsJsonLd(before[p][i])
        /\ Parses(before[p][i].body)}

\* the keys the claim lets the Rewriter rewrite the string value of
ImageLikeKey(key) ==
    \/ key \in {<<"image">>, <<"logo">>, <<"thumbnail">>, <<"url">>}
    \/ \E i \in DOMAIN key : key[i] \in {"Image", "image"}

\* the array elements the claim lets the Rewriter rewrite
UrlLikeItem(item) ==
    (\E i \in DOMAIN item : item[i] \in {"http:", "https:"}) \/ (item # <<>> /\ item[1] = "/")

\* new is old except for strings under an image-like key and URL-like array
\* elements; `key` is the key old is stored under, inArray whether it is an
\* element of an array
RECURSIVE FrameKept(_, _, _, _)
FrameKept(old, new, key, inArray) ==
    IF old.t = "str"
    THEN new = old \/ (IF inArray THEN UrlLikeItem(old.v) ELSE ImageLikeKey(key))
    ELSE IF IsContainer(old)
    THEN /\ new.t = old.t
         /\ DOMAIN new.v = DOMAIN old.v
         /\ \A k \in DOMAIN old.v :
               FrameKept(old.v[k], new.v[k], IF old.t = "arr" THEN IndexKey(k) ELSE k,
                         old.t = "arr")
    ELSE new = old

\* C22 in a JSON-LD body that parses, a string is changed only if its key is
\* image-like (image, logo, thumbnail, url, or contains Image/image) or it
\* is a URL-like array element; every other string keeps its value even
\* when its lookup key is in the mapping
C22_JsonLdFrame ==
    Rewritten =>
        \A pos \in ParsedScripts :
            /\ Parses(outTree[pos[1]][pos[2]].body)
            /\ FrameKept(before[pos[1]][pos[2]].body.value,
                         outTree[pos[1]][pos[2]].body.value, <<>>, FALSE)

\* "encoding" held the relative form of a mapped key and kept it, while the
\* url of the image object of the same body was rewritten
C22_Witness ==
    /\ Rewritten /\ runs = 1
    /\ LogoPng \in DOMAIN finalMappings
    /\ SlashedLogoPng \in DOMAIN finalMappings
    /\ \E pos \in ParsedScripts :
          LET old == before[pos[1]][pos[2]].body.value
              new == outTree[pos[1]][pos[2]].body.value
          IN /\ <<"encoding">> \in DOMAIN old.v
             /\ old.v[<<"encoding">>] = JStr(Rel(SlashedLogoPng))
             /\ new.v[<<"encoding">>] = JStr(Rel(SlashedLogoPng))
             /\ new.v[<<"image">>].v[<<"url">>] = JStr(Abs(finalMappings[LogoPng]))

\* one step of closeBundle that is a returning call of processMissingAssets
ReconcileStep == pc = "processMissingAssets" /\ pc' = "updateHtmlFiles"

\* the originalPaths the scan of the reconciler finds
ScannedPaths ==
    DOMAIN findUnreferencedAssets(sources[ScannedSourceDir], assetConfig.siteBaseUrl)

\* C23 reconciliation only adds entries: every key of the passed mapping
\* keeps its value in the returned one, the passed mapping is not modified,
\* and the keys added are exactly the scanned originalPaths absent from the
\* passed mapping whose copy succeeded
C23_ReconcileOnlyAdds ==
    [][ReconcileStep =>
          /\ assetMappings' = assetMappings
          /\ \A k \in DOMAIN assetMappings :
                k \in DOMAIN finalMappings' /\ finalMappings'[k] = assetMappings[k]
          /\ DOMAIN finalMappings' \ DOMAIN assetMappings
                = (ScannedPaths \ DOMAIN assetMappings) \ failedCopies']_vars

\* a reconciliation that was passed a non-empty mapping, added a key and had
\* a failed copy
C23_Witness ==
    /\ pc = "updateHtmlFiles"
    /\ DOMAIN assetMappings # {}
    /\ DOMAIN finalMappings \ DOMAIN assetMappings # {}
    /\ failedCopies # {}

\* C24 copy failures are isolated: when the copy of a missing asset fails,
\* processMissingAssets still returns, the failed asset gets no mapping entry
\* and every other missing asset is copied and mapped
C24_CopyFailuresIsolated ==
    [][pc = "processMissingAssets" /\ failedCopies' # {} =>
          /\ pc' = "updateHtmlFiles"
          /\ \A p \in failedCopies' : p \notin DOMAIN finalMappings'
          /\ \A p \in (ScannedPaths \ DOMAIN assetMappings) \ failedCopies' :
                /\ p \in DOMAIN finalMappings'
                /\ finalMappings'[p] \in DOMAIN outTree']_vars

\* one copy failed and another missing asset was copied by the same call
C24_Witness ==
    /\ pc = "updateHtmlFiles"
    /\ failedCopies # {}
    /\ \E p \in DOMAIN finalMappings \ DOMAIN assetMappings : p \notin failedCopies

\* closeBundle fires for the worker phase of a combined client+worker build
WorkerPhase == ssr /\ cloudflareBuild = Defined("true")

\* closeBundle is at, or past, one of its three steps
StepsRun == pc \in {"createAssetMappings", "processMissingAssets", "updateHtmlFiles", "done", "threw"}

\* C28 in the worker phase of a combined build (SSR flag set, CLOUDFLARE_BUILD
\* 'true') closeBundle builds no mapping, copies no asset and writes no
\* document: no step of it changes the output tree or a mapping, and none of
\* the three steps is reached; in a combined build they run for the client
\* phase only
C28_WorkerPhaseSkipped ==
    /\ [](StepsRun /\ cloudflareBuild = Defined("true") => ~ssr)
    /\ [][WorkerPhase =>
            /\ pc' = "skipped"
            /\ outTree' = outTree
            /\ assetMappings' = assetMappings
            /\ finalMappings' = finalMappings
            /\ written' = written
            /\ runs' = runs]_vars

\* closeBundle returned at once over an output tree that holds documents and
\* bundled assets
C28_Witness ==
    /\ pc = "skipped"
    /\ WorkerPhase
    /\ clientDirExists
    /\ HtmlFiles(outTree) # {}
    /\ HashedIcon \in DOMAIN outTree
    /\ assetMappings = <<>> /\ finalMappings = <<>> /\ runs = 0

\* findAssetsInString has returned, and nothing has run since
Scanned == pc = "findUnreferencedAssets" /\ scans = <<>>

\* the string with one leading siteBaseUrl removed, cut at the first '?' or
\* '#', its leading '/' removed
StrippedInput ==
    StripLeadingSlashes(
        BeforeQueryOrHash(IF StartsWith(scanInput, SiteBaseUrl)
                          THEN SubSeq(scanInput, Len(SiteBaseUrl) + 1, Len(scanInput))
                          ELSE scanInput))

\* the path ends in '.' and a recognised media extension
EndsInMediaExtension(p) ==
    /\ Len(p) >= 2
    /\ p[Len(p) - 1] = "."
    /\ p[Len(p)] \in {"jpg", "jpeg", "png", "svg", "gif", "webp", "avif", "mp4", "webm", "ico"}

\* what the claim and its amendment share: at most one entry; no leading '/',
\* no '?' or '#', a media extension; fullPath an existing file, the direct
\* one when it exists; empty exactly when nothing is found
ScanShape(sameName(_, _)) ==
    /\ Cardinality(scanEntries) <= 1
    /\ \A e \in scanEntries :
          /\ e.originalPath # <<>> /\ Head(e.originalPath) # "/"
          /\ \A i \in DOMAIN e.originalPath : e.originalPath[i] \notin {"?", "#"}
          /\ EndsInMediaExtension(e.originalPath)
          /\ e.fullPath \in DOMAIN scanTree
          /\ IF e.originalPath \in DOMAIN scanTree THEN e.fullPath = e.originalPath
             ELSE /\ sameName(e.originalPath, e.fullPath)
                  /\ \A i \in DOMAIN enumeration :
                        sameName(e.originalPath, enumeration[i]) /\ enumeration[i] \in DOMAIN scanTree
                            => \E j \in 1..i : enumeration[j] = e.fullPath
    /\ scanEntries = {} <=>
          \/ ~EndsInMediaExtension(StrippedInput)
          \/ /\ StrippedInput \notin DOMAIN scanTree
             /\ \A f \in DOMAIN scanTree : ~sameName(StrippedInput, f)

SameBaseName(original, full) == Basename(full) = Basename(original)

MatchesBaseName(original, full) == GlobMatches(Basename(original), Basename(full))

\* C25 as stated: the originalPath of a returned entry carries no siteBaseUrl
\* prefix, and the fallback's fullPath has the same base name
C25_ScannerShape ==
    Scanned =>
        /\ ScanShape(SameBaseName)
        /\ \A e \in scanEntries : ~StartsWith(e.originalPath, SiteBaseUrl)

\* C25 amended: at most one entry; its originalPath is the string with one
\* leading siteBaseUrl removed, cut at the first '?' or '#', leading '/'
\* removed, and ends in a media extension; its fullPath is an existing file,
\* sourceDir/originalPath when that exists, otherwise the first path the glob
\* search for the base name returns; the result is empty exactly when the
\* extension is not recognised or neither exists
C25_ScannerShapeStrippedOnce ==
    Scanned =>
        /\ ScanShape(MatchesBaseName)
        /\ \A e \in scanEntries : e.originalPath = StrippedInput

\* a string that holds the base URL after a leading '/' gave an entry whose
\* originalPath still begins with the base URL, bound by the base-name search
C25_Witness ==
    /\ Scanned
    /\ scanInput = <<"/">> \o Abs(LogoPng)
    /\ scanEntries = {[originalPath |-> Abs(LogoPng), fullPath |-> LogoPng]}

\* C27 as stated: two scans of one source tree with one base URL yield the
\* same set of (originalPath, fullPath) pairs, whatever order the files are
\* enumerated in
C27_ScansAgree == \A i, j \in DOMAIN scans : scans[i] = scans[j]

\* the keys a returning call of processMissingAssets adds to the mapping
AddedKeys == DOMAIN finalMappings \ DOMAIN assetMappings

\* C26 as stated: any two distinct missing originalPaths are copied to
\* distinct target paths
C26_UniqueTargets ==
    pc = "updateHtmlFiles" =>
        \A p, q \in AddedKeys : p # q => finalMappings[p] # finalMappings[q]

\* the bytes of the source file the scan resolved an originalPath to
SourceBytes(p) ==
    sources[ScannedSourceDir][
        findUnreferencedAssets(sources[ScannedSourceDir], assetConfig.siteBaseUrl)[p]]

\* C26 amended: two distinct missing originalPaths are copied to one target
\* path only when they are one path after normalisation, and then the same
\* bytes are copied; every target holds the bytes of each asset mapped to it,
\* so the copies can be made in any order with the same output tree and
\* mapping
C26_UniqueTargetsUpToNormalisation ==
    pc = "updateHtmlFiles" =>
        /\ \A p, q \in AddedKeys :
              finalMappings[p] = finalMappings[q]
                  => Normalize(p) = Normalize(q) /\ SourceBytes(p) = SourceBytes(q)
        /\ \A p \in AddedKeys : outTree[finalMappings[p]] = SourceBytes(p)

\* images/logo.png and images//logo.png were both missing and were copied to
\* one target
C26_Witness ==
    /\ pc = "updateHtmlFiles"
    /\ {LogoPng, SlashedLogoPng} \subseteq AddedKeys
    /\ finalMappings[LogoPng] = finalMappings[SlashedLogoPng]

\* C29 as stated: when the promise given to waitUntil by the install
\* listener has resolved, every core asset is stored in the cache and no
\* cache.add has failed
C29_InstalledMeansCached ==
    swPc = "installed" => coreAssets \subseteq DOMAIN cached /\ addFailed = {}

\* the request of the event; of an install event, a request with no method
RequestOf ==
    IF swEvent # Undefined /\ swEvent.v.type = "fetch" THEN swEvent.v.request
    ELSE [method |-> "", origin |-> "", pathname |-> <<>>, accept |-> <<>>,
          cachemode |-> <<"", "">>]

\* the fetch listener has returned for a same-origin GET request whose Accept
\* header contains text/html
HtmlRequestSeen ==
    /\ swPc # "fetch"
    /\ RequestOf.method = "GET"
    /\ RequestOf.origin = "self"
    /\ Includes(RequestOf.accept, <<"text", "/", "html">>)

\* the request has cache mode only-if-cached and a mode other than same-origin
OnlyIfCachedElsewhere ==
    /\ RequestOf.cachemode[1] = "only-if-cached"
    /\ RequestOf.cachemode[2] # "same-origin"

\* the network answered the request of the event
NetworkSucceeded == network # Undefined /\ ~network.v.rejected

NetworkFailed == network # Undefined /\ network.v.rejected

\* the copy of the network response is in the cache under the request
CopyCached ==
    /\ NetworkSucceeded
    /\ RequestOf.pathname \in DOMAIN cached
    /\ cached[RequestOf.pathname] = network.v.response

\* the response of the network-first policy, once there is one: the network's
\* when it answered, otherwise the cached entry of the request, otherwise the
\* cached /offline.html, otherwise a 503
NetworkFirstResponse ==
    /\ respondWithCalls = 1
    /\ responded # Undefined =>
          /\ network # Undefined
          /\ responded.v =
                IF ~network.v.rejected THEN network.v.response
                ELSE IF RequestOf.pathname \in DOMAIN cached
                THEN cached[RequestOf.pathname]
                ELSE IF OfflineHtml \in DOMAIN cached THEN cached[OfflineHtml]
                ELSE HttpResponse(503, "Offline page not found",
                                  [ContentType |-> "text/plain"])
    /\ NetworkSucceeded => responded # Undefined

=============================================================================
